---- MODULE Spec2Model ----
(***************************************************************************)
(* Model of the document question-answering pipeline of the chainlit       *)
(* sample applications: the flow executor (config/promptflow_executor.py), *)
(* the pipeline nodes (promptflows/document_qa/*.py) and the message       *)
(* handlers that call them (app_dynamic.py, app.py).                       *)
(*                                                                         *)
(* Text.  A text is a sequence of symbols.  A symbol is one character,     *)
(* except the phrase symbol "W", which stands for the PhraseWords-fold     *)
(* repetition of the word "w" separated by single spaces ("w w ... w").    *)
(* A phrase holds no whitespace run, no leading or trailing whitespace and *)
(* no sentence terminator, so str.strip, re.sub(r'\s+', ' '), re.split and *)
(* str.split act on a text with phrases exactly as on its expansion; the   *)
(* phrase only keeps a 200-word chunk within reach of the model checker.   *)
(***************************************************************************)
EXTENDS Integers, Sequences, FiniteSets, TLC

\* ------------------------------------------------------------------ bounds

\* Longest document of the chunker specification, in symbols.
MaxDocLen == 5

\* Messages that reach the end of a message handler in one chat.
MaxMessages == 12

\* Calls of get_promptflow_executor in one behaviour.
MaxCalls == 3

\* Words in one phrase symbol "W".
PhraseWords == 100

\* ------------------------------------------------------------------- text

\* The one element of a singleton.  A local variable of the code is
\* written {body : variable \in {value}}: its value is computed once, and
\* the body reads it.
The(singleton) == CHOOSE result \in singleton : TRUE

Letters == {"a", "W"}
Whitespace == {" ", "\n"}
Terminators == {".", "!", "?"}

IsSpace(c) == c \in Whitespace
IsTerminator(c) == c \in Terminators

\* Words and characters a symbol stands for.
SymbolWords(c) == IF c = "W" THEN PhraseWords ELSE 1
SymbolChars(c) == IF c = "W" THEN 2 * PhraseWords - 1 ELSE 1

RECURSIVE SumOver(_, _)
SumOver(f, S) ==
    IF S = {} THEN 0
    ELSE LET x == CHOOSE y \in S : TRUE IN f[x] + SumOver(f, S \ {x})

\* len(text)
TextLen(s) == SumOver([i \in 1..Len(s) |-> SymbolChars(s[i])], 1..Len(s))

RECURSIVE LStrip(_)
LStrip(s) == IF s # <<>> /\ IsSpace(Head(s)) THEN LStrip(Tail(s)) ELSE s

RECURSIVE RStrip(_)
RStrip(s) ==
    IF s # <<>> /\ IsSpace(s[Len(s)]) THEN RStrip(SubSeq(s, 1, Len(s) - 1)) ELSE s

\* str.strip()
Strip(s) == RStrip(LStrip(s))

\* re.sub(r'\s+', ' ', s): every maximal whitespace run becomes one space.
RECURSIVE CollapseWhitespace(_)
CollapseWhitespace(s) ==
    IF s = <<>> THEN <<>>
    ELSE IF IsSpace(Head(s)) THEN <<" ">> \o CollapseWhitespace(LStrip(s))
    ELSE <<Head(s)>> \o CollapseWhitespace(Tail(s))

RECURSIVE DropTerminators(_)
DropTerminators(s) ==
    IF s # <<>> /\ IsTerminator(Head(s)) THEN DropTerminators(Tail(s)) ELSE s

\* re.split(r'[.!?]+', s): the pieces between maximal runs of terminators,
\* empty pieces at the ends included.
RECURSIVE ReSplit(_, _)
ReSplit(s, piece) ==
    IF s = <<>> THEN <<piece>>
    ELSE IF IsTerminator(Head(s))
         THEN <<piece>> \o ReSplit(DropTerminators(s), <<>>)
         ELSE ReSplit(Tail(s), Append(piece, Head(s)))

NonEmpty(s) == s # <<>>

\* Mutant: the stripped pieces are kept whether empty or not.
StripAllKeepingEmpty(pieces) ==
    [i \in 1..Len(pieces) |-> Strip(pieces[i])]

\* [s.strip() for s in sentences if s.strip()]
StripAll(pieces) ==
    SelectSeq([i \in 1..Len(pieces) |-> Strip(pieces[i])], NonEmpty)

\* len(s.split()): the maximal runs of non-whitespace symbols, a phrase
\* adding its further words.
WordCount(s) ==
    Cardinality({i \in 1..Len(s) : ~IsSpace(s[i]) /\ (i = 1 \/ IsSpace(s[i - 1]))})
    + SumOver([i \in 1..Len(s) |-> SymbolWords(s[i]) - 1], 1..Len(s))

\* sep.join(parts)
RECURSIVE Join(_, _)
Join(parts, sep) ==
    IF parts = <<>> THEN <<>>
    ELSE IF Len(parts) = 1 THEN parts[1]
    ELSE parts[1] \o sep \o Join(Tail(parts), sep)

\* ----------------------------------------------------- preprocess_document

\* The chunk target of preprocess_document, in words.
TargetWords == 200

\* The sentence list of preprocess_document: clean, split, strip, filter.
CleanedContent(document_content) == CollapseWhitespace(Strip(document_content))

Sentences(cleaned_content) == StripAll(ReSplit(cleaned_content, <<>>))

\* Mutant: the chunk is closed by the sentence's own length only.
RECURSIVE PackSentencesOwnLength(_, _, _, _)
PackSentencesOwnLength(sentences, chunks, current_chunk, current_word_count) ==
    IF sentences = <<>>
    THEN IF current_chunk # <<>>
         THEN Append(chunks, Join(current_chunk, <<" ">>))
         ELSE chunks
    ELSE LET sentence == Head(sentences)
             word_count == WordCount(sentence)
         IN  IF word_count > TargetWords /\ current_chunk # <<>>
             THEN PackSentencesOwnLength(Tail(sentences),
                                         Append(chunks, Join(current_chunk, <<" ">>)),
                                         <<sentence>>, word_count)
             ELSE PackSentencesOwnLength(Tail(sentences), chunks,
                                         Append(current_chunk, sentence),
                                         current_word_count + word_count)

\* Mutant: the loop without the trailing "add the last chunk".
RECURSIVE PackSentencesNoLast(_, _, _, _)
PackSentencesNoLast(sentences, chunks, current_chunk, current_word_count) ==
    IF sentences = <<>>
    THEN chunks
    ELSE LET sentence == Head(sentences)
             word_count == WordCount(sentence)
         IN  IF current_word_count + word_count > TargetWords /\ current_chunk # <<>>
             THEN PackSentencesNoLast(Tail(sentences),
                                      Append(chunks, Join(current_chunk, <<" ">>)),
                                      <<sentence>>, word_count)
             ELSE PackSentencesNoLast(Tail(sentences), chunks,
                                      Append(current_chunk, sentence),
                                      current_word_count + word_count)

\* Mutant: the chunk is closed as soon as it reaches the target.
RECURSIVE PackSentencesClosingEarly(_, _, _, _)
PackSentencesClosingEarly(sentences, chunks, current_chunk, current_word_count) ==
    IF sentences = <<>>
    THEN IF current_chunk # <<>>
         THEN Append(chunks, Join(current_chunk, <<" ">>))
         ELSE chunks
    ELSE LET sentence == Head(sentences)
             word_count == WordCount(sentence)
         IN  IF current_word_count + word_count >= TargetWords /\ current_chunk # <<>>
             THEN PackSentencesClosingEarly(Tail(sentences),
                                            Append(chunks, Join(current_chunk, <<" ">>)),
                                            <<sentence>>, word_count)
             ELSE PackSentencesClosingEarly(Tail(sentences), chunks,
                                            Append(current_chunk, sentence),
                                            current_word_count + word_count)

\* The packing loop and the trailing "add the last chunk".
RECURSIVE PackSentences(_, _, _, _)
PackSentences(sentences, chunks, current_chunk, current_word_count) ==
    IF sentences = <<>>
    THEN IF current_chunk # <<>>
         THEN Append(chunks, Join(current_chunk, <<" ">>))
         ELSE chunks
    ELSE LET sentence == Head(sentences)
             word_count == WordCount(sentence)
         IN  IF current_word_count + word_count > TargetWords /\ current_chunk # <<>>
             THEN PackSentences(Tail(sentences),
                                Append(chunks, Join(current_chunk, <<" ">>)),
                                <<sentence>>, word_count)
             ELSE PackSentences(Tail(sentences), chunks,
                                Append(current_chunk, sentence),
                                current_word_count + word_count)

\* Mutant: no test for a blank document; the chunking runs on it.
preprocess_document_unguarded(document_content, question) ==
    The({The({The({
        [chunks |-> chunks,
         total_length |-> TextLen(cleaned_content),
         chunk_count |-> Len(chunks),
         metadata |-> [original_length |-> TextLen(document_content),
                       sentence_count |-> Len(sentences),
                       processing_status |-> "success"]]
        : chunks \in {PackSentences(sentences, <<>>, <<>>, 0)}})
        : sentences \in {Sentences(cleaned_content)}})
        : cleaned_content \in {CleanedContent(document_content)}})

preprocess_document(document_content, question) ==
    IF Strip(document_content) = <<>>
    THEN [chunks |-> <<>>,
          total_length |-> 0,
          chunk_count |-> 0,
          metadata |-> [error |-> "No document content provided"]]
    ELSE The({The({The({
             [chunks |-> chunks,
              total_length |-> TextLen(cleaned_content),
              chunk_count |-> Len(chunks),
              metadata |-> [original_length |-> TextLen(document_content),
                            sentence_count |-> Len(sentences),
                            processing_status |-> "success"]]
             : chunks \in {PackSentences(sentences, <<>>, <<>>, 0)}})
             : sentences \in {Sentences(cleaned_content)}})
             : cleaned_content \in {CleanedContent(document_content)}})

\* ------------------------------------------------------------ word tokens

\* A phrase holds the word "w" at least three times, so "w w w" has the
\* same word set as the phrase.
RECURSIVE Expand(_)
Expand(s) ==
    IF s = <<>> THEN <<>>
    ELSE (IF Head(s) = "W" THEN <<"w", " ", "w", " ", "w">> ELSE <<Head(s)>>)
         \o Expand(Tail(s))

\* str.lower() on one symbol.
LowerSymbol(c) ==
    IF c = "A" THEN "a" ELSE IF c = "B" THEN "b" ELSE IF c = "No" THEN "no" ELSE c

Lower(s) == [i \in 1..Len(s) |-> LowerSymbol(s[i])]

\* Symbols that are no word characters (\W of the regular expressions).
Punctuation == {":", ",", "*", "%", "(", ")"}

\* \w of the regular expressions: a letter, or a symbol standing for
\* several letters.
IsWordChar(c) == c \notin Whitespace \cup Terminators \cup Punctuation

\* set(re.findall(r'\b\w+\b', text.lower())): the maximal runs of word
\* characters.
FindWords(text) ==
    The({LET n == Len(s)
         IN  {SubSeq(s, p[1], p[2]) : p \in
                 {p \in (1..n) \X (1..n) :
                     /\ p[1] <= p[2]
                     /\ \A k \in p[1]..p[2] : IsWordChar(s[k])
                     /\ (p[1] = 1 \/ ~IsWordChar(s[p[1] - 1]))
                     /\ (p[2] = n \/ ~IsWordChar(s[p[2] + 1]))}}
         : s \in {Lower(Expand(text))}})

\* -------------------------------------------------------- extract_context

NoContentMessage ==
    <<"No", " ", "document", " ", "content", " ", "available", " ", "for", " ",
      "analysis", ".">>

\* overlap / len(question_words) if question_words else 0, as a fraction.
ChunkScore(question_words, chunk) ==
    IF question_words # {}
    THEN [num |-> Cardinality(question_words \cap FindWords(chunk)),
          den |-> Cardinality(question_words)]
    ELSE [num |-> 0, den |-> 1]

ScoreGreater(x, y) == x.num * y.den > y.num * x.den
ScoreEqual(x, y) == x.num * y.den = y.num * x.den
ScorePositive(x) == x.num > 0

\* Mutant: a sort that is not stable, entries of equal score change places.
SortByScoreUnstable(chunk_scores) ==
    LET n == Len(chunk_scores)
        Rank(i) == 1 + Cardinality({j \in 1..n :
                        \/ ScoreGreater(chunk_scores[j].score, chunk_scores[i].score)
                        \/ /\ ScoreEqual(chunk_scores[j].score, chunk_scores[i].score)
                           /\ j > i})
    IN  [k \in 1..n |-> chunk_scores[CHOOSE i \in 1..n : Rank(i) = k]]

\* chunk_scores.sort(key=lambda x: x[2], reverse=True): a stable sort,
\* equal scores keep their order.
SortByScore(chunk_scores) ==
    LET n == Len(chunk_scores)
        Rank(i) == 1 + Cardinality({j \in 1..n :
                        \/ ScoreGreater(chunk_scores[j].score, chunk_scores[i].score)
                        \/ /\ ScoreEqual(chunk_scores[j].score, chunk_scores[i].score)
                           /\ j < i})
    IN  [k \in 1..n |-> chunk_scores[CHOOSE i \in 1..n : Rank(i) = k]]

\* seq[:n]
Take(seq, n) == SubSeq(seq, 1, IF Len(seq) < n THEN Len(seq) ELSE n)

\* seq[-n:]
Last(seq, n) == SubSeq(seq, IF Len(seq) < n THEN 1 ELSE Len(seq) - n + 1, Len(seq))

\* role.title()
Title(role) ==
    IF role = "user" THEN "User"
    ELSE IF role = "assistant" THEN "Assistant"
    ELSE IF role = "system" THEN "System"
    ELSE role

RECURSIVE FormatTurns(_)
FormatTurns(turns) ==
    IF turns = <<>> THEN <<>>
    ELSE <<Title(Head(turns).role), ":", " ">> \o Head(turns).content \o <<"\n">>
         \o FormatTurns(Tail(turns))

\* Mutant: every turn of the history is rendered.
FormatHistoryAllTurns(chat_history) ==
    IF chat_history = <<>> THEN <<>>
    ELSE <<"\n", "\n", "Previous conversation context:", "\n">>
         \o FormatTurns(chat_history)

\* The history rendering of extract_context: the last three turns.
FormatHistory(chat_history) ==
    IF chat_history = <<>> THEN <<>>
    ELSE <<"\n", "\n", "Previous conversation context:", "\n">>
         \o FormatTurns(Last(chat_history, 3))

MaxScore(scores) ==
    CHOOSE x \in {scores[i] : i \in 1..Len(scores)} :
        \A i \in 1..Len(scores) : ~ScoreGreater(scores[i], x)

\* Mutant: the selected chunks are not filtered by their score.
IsAnyEntry(entry) == entry.score.num >= 0

IsPositiveEntry(entry) == ScorePositive(entry.score)

\* The scoring loop: chunk_scores, one entry (i, chunk, score) per chunk.
ScoreChunks(chunks, question) ==
    The({[i \in 1..Len(chunks) |->
             [index |-> i - 1, chunk |-> chunks[i],
              score |-> ChunkScore(question_words, chunks[i])]]
         : question_words \in {FindWords(question)}})

\* Mutant: no fallback when no chunk scores above zero.
FallbackPiecesNone(chunks) == <<>>

\* context_pieces = processed_doc["chunks"][:2]
FallbackPieces(chunks) == Take(chunks, 2)

\* extract_context from the sort on: ranking, selection, the fallback,
\* the history rendering and the result.
RankAndSelect(chunk_scores, chunks, chat_history) ==
             The({
                 LET positive == SelectSeq(relevant_chunks, IsPositiveEntry)
                     context_pieces ==
                         IF positive # <<>>
                         THEN [i \in 1..Len(positive) |-> positive[i].chunk]
                         ELSE FallbackPieces(chunks)
                 IN  [context |-> Join(context_pieces, <<"\n", "\n">>),
                      relevant_chunks |-> [i \in 1..Len(relevant_chunks) |->
                                              [index |-> relevant_chunks[i].index,
                                               score |-> relevant_chunks[i].score]],
                      formatted_history |-> FormatHistory(chat_history),
                      relevance_score |->
                          IF relevant_chunks # <<>>
                          THEN MaxScore([i \in 1..Len(relevant_chunks) |->
                                            relevant_chunks[i].score])
                          ELSE [num |-> 0, den |-> 1]]
                 : relevant_chunks \in {Take(SortByScore(chunk_scores), 3)}})

\* extract_context after its early return: the scoring loop, then the rest.
SelectContext(processed_doc, question, chat_history) ==
    The({RankAndSelect(chunk_scores, processed_doc.chunks, chat_history)
         : chunk_scores \in {ScoreChunks(processed_doc.chunks, question)}})

\* Mutant: no early return for a document without chunks.
extract_context_unguarded(processed_doc, question, chat_history) ==
    SelectContext(processed_doc, question, chat_history)

extract_context(processed_doc, question, chat_history) ==
    IF processed_doc.chunks = <<>>
    THEN [context |-> NoContentMessage,
          relevant_chunks |-> <<>>,
          formatted_history |-> <<>>,
          relevance_score |-> [num |-> 0, den |-> 1]]
    ELSE SelectContext(processed_doc, question, chat_history)

\* The number of chunk scores extract_context computes: one per chunk in
\* its scoring loop, none when it returns early.
ChunkScoresComputed(processed_doc) ==
    IF processed_doc.chunks = <<>> THEN 0 ELSE Len(processed_doc.chunks)

\* ------------------------------------------------------- Python values

\* None where a text is expected, and a key that the input mapping does
\* not hold: each a one-symbol sequence that no text is.
NoneValue == <<"<None>">>
Missing == <<"<missing>">>

IsNone(x) == x = NoneValue

\* None where a mapping is expected, and a local variable not yet assigned.
Unset == [py |-> "None"]

IsUnset(x) == x = Unset

\* inputs.get(key, default)
Get(inputs, key, default) == IF inputs[key] = Missing THEN default ELSE inputs[key]

\* f"{value}"
Format(value) == IF IsNone(value) THEN <<"None">> ELSE value

\* ---------------------------------------------------- calculate_relevance

StopWords ==
    {<<"the">>, <<"a">>, <<"an">>, <<"and">>, <<"or">>, <<"but">>, <<"in">>,
     <<"on">>, <<"at">>, <<"to">>, <<"for">>, <<"of">>, <<"with">>, <<"by">>}

\* Mutant: the ratio is computed without the test for an empty set.
ContainmentUnguarded(A, B) ==
    [num |-> Cardinality(A \cap B), den |-> Cardinality(A)]

\* len(A & B) / len(A) if A else 0, as a fraction.
Containment(A, B) ==
    IF A # {}
    THEN [num |-> Cardinality(A \cap B), den |-> Cardinality(A)]
    ELSE [num |-> 0, den |-> 1]

\* The weights of overall_score, in tenths.
QaWeight == 4
AcWeight == 4
QcWeight == 2

\* round(n / d): to the nearest integer, a tie to the even one.
RoundHalfEven(n, d) ==
    LET q == n \div d
        r == n % d
    IN  IF 2 * r < d THEN q
        ELSE IF 2 * r > d THEN q + 1
        ELSE IF q % 2 = 0 THEN q ELSE q + 1

\* overall_score * 100 as the fraction num / den of tenths of a percent.
OverallTenths(qa_score, ac_score, qc_score) ==
    [num |-> 100 * (QaWeight * qa_score.num * ac_score.den * qc_score.den
                    + AcWeight * ac_score.num * qa_score.den * qc_score.den
                    + QcWeight * qc_score.num * qa_score.den * ac_score.den),
     den |-> qa_score.den * ac_score.den * qc_score.den]

\* relevance_percentage = round(overall_score * 100, 1), in tenths of a
\* percent.
RelevanceTenths(qa_score, ac_score, qc_score) ==
    LET overall == OverallTenths(qa_score, ac_score, qc_score)
    IN  RoundHalfEven(overall.num, overall.den)

\* The percentages the categories start at.
HighPercent == 70
MediumPercent == 50

\* Mutant: the categories start above their percentages, not at them.
CategoryAbove(relevance_tenths) ==
    IF relevance_tenths > 10 * HighPercent THEN "High"
    ELSE IF relevance_tenths > 10 * MediumPercent THEN "Medium"
    ELSE "Low"

\* The category of the rounded percentage.
Category(relevance_tenths) ==
    IF relevance_tenths >= 10 * HighPercent THEN "High"
    ELSE IF relevance_tenths >= 10 * MediumPercent THEN "Medium"
    ELSE "Low"

\* Mutant: no try/except around the body, the exception escapes.
calculate_relevance_uncaught(question, answer, context) ==
    [raised |-> IsNone(question) \/ IsNone(answer) \/ IsNone(context),
     error |-> FALSE]

\* The whole body runs inside try/except: a None argument fails at its
\* .lower() and yields the error report; nothing is raised to the caller.
calculate_relevance(question, answer, context) ==
    IF IsNone(question) \/ IsNone(answer) \/ IsNone(context)
    THEN [raised |-> FALSE, error |-> TRUE]
    ELSE The({The({
              IF qa_score.den = 0 \/ ac_score.den = 0 \/ qc_score.den = 0
              THEN \* ZeroDivisionError, caught like any other exception
                   [raised |-> FALSE, error |-> TRUE]
              ELSE The({[raised |-> FALSE,
               error |-> FALSE,
               qa_score |-> qa_score,
               ac_score |-> ac_score,
               qc_score |-> qc_score,
               relevance_tenths |-> relevance_tenths,
               category |-> Category(relevance_tenths)]
              : relevance_tenths \in
                    {RelevanceTenths(qa_score, ac_score, qc_score)}})
              : qa_score \in {Containment(question_words, answer_words)},
                ac_score \in {Containment(answer_words, context_words)},
                qc_score \in {Containment(question_words, context_words)}})
              : question_words \in {FindWords(question) \ StopWords},
                answer_words \in {FindWords(answer) \ StopWords},
                context_words \in {FindWords(context) \ StopWords}})

\* -------------------------------------------------------- extract_sources

\* Mutant: text.startswith(sub) instead of sub in text.
ContainsAtStart(text, sub) ==
    /\ Len(sub) <= Len(text)
    /\ \A k \in 1..Len(sub) : text[k] = sub[k]

\* sub in text
Contains(text, sub) ==
    \E i \in 0..(Len(text) - Len(sub)) :
        \A k \in 1..Len(sub) : text[i + k] = sub[k]

\* The text with every phrase symbol written out in its words.
RECURSIVE ExpandPhrase(_)
ExpandPhrase(s) ==
    IF s = <<>> THEN <<>>
    ELSE (IF Head(s) = "W"
          THEN Join([i \in 1..PhraseWords |-> <<"w">>], <<" ">>)
          ELSE <<Head(s)>>)
         \o ExpandPhrase(Tail(s))

\* str.split(): the maximal runs of symbols that are not whitespace.
RECURSIVE SplitWords(_, _)
SplitWords(s, word) ==
    IF s = <<>> THEN (IF word = <<>> THEN <<>> ELSE <<word>>)
    ELSE IF IsSpace(Head(s))
         THEN (IF word = <<>> THEN <<>> ELSE <<word>>) \o SplitWords(Tail(s), <<>>)
         ELSE SplitWords(Tail(s), Append(word, Head(s)))

\* The thresholds of a potential quote: len(sentence) > 20 characters,
\* len(words) >= 5, and the phrases of 5 words.
QuoteChars == 20
QuoteWords == 5

\* Mutant: the sentence must have twenty words, not more than twenty
\* characters.
IsPotentialQuoteOfTwentyWords(sentence, context) ==
    /\ WordCount(sentence) >= QuoteChars
    /\ LET words == SplitWords(Lower(ExpandPhrase(sentence)), <<>>)
       IN  /\ Len(words) >= QuoteWords
           /\ \E i \in 1..(Len(words) - QuoteWords + 1) :
                  Contains(Lower(ExpandPhrase(context)),
                           Join(SubSeq(words, i, i + QuoteWords - 1), <<" ">>))

\* The test of one stripped answer sentence: long enough, of five words
\* or more, and one of its phrases of five consecutive words, joined by
\* single spaces, is found in the lower-cased context.
IsPotentialQuote(sentence, context) ==
    /\ TextLen(sentence) > QuoteChars
    /\ LET words == SplitWords(Lower(ExpandPhrase(sentence)), <<>>)
       IN  /\ Len(words) >= QuoteWords
           /\ \E i \in 1..(Len(words) - QuoteWords + 1) :
                  Contains(Lower(ExpandPhrase(context)),
                           Join(SubSeq(words, i, i + QuoteWords - 1), <<" ">>))

\* The whole body runs inside try/except: with chunks present, a None
\* answer fails at re.split and yields the error report; nothing is raised
\* to the caller.
extract_sources(processed_doc, context, answer) ==
    IF processed_doc.chunks = <<>>
    THEN [raised |-> FALSE, error |-> FALSE, available |-> FALSE,
          used_chunks |-> <<>>, potential_quotes |-> <<>>]
    ELSE IF IsNone(answer) \/ IsNone(context)
    THEN [raised |-> FALSE, error |-> TRUE, available |-> TRUE,
          used_chunks |-> <<>>, potential_quotes |-> <<>>]
    ELSE LET chunks == processed_doc.chunks
             IsUsed(i) == Contains(context, Strip(chunks[i]))
             answer_sentences == ReSplit(answer, <<>>)
             stripped == [i \in 1..Len(answer_sentences) |->
                             Strip(answer_sentences[i])]
             IsQuote(sentence) == IsPotentialQuote(sentence, context)
         IN  [raised |-> FALSE,
              error |-> FALSE,
              available |-> TRUE,
              used_chunks |-> SelectSeq([i \in 1..Len(chunks) |-> i], IsUsed),
              potential_quotes |-> SelectSeq(stripped, IsQuote)]

\* ---------------------------------------------------------- prepare_prompt

\* The conversation rendering of prepare_prompt: the last five turns.
ConversationContext(chat_history) ==
    IF chat_history = <<>> THEN <<>>
    ELSE <<"\n", "\n", "Previous conversation:", "\n">>
         \o FormatTurns(Last(chat_history, 5))

prepare_prompt(chat_history, question, profile_name) ==
    [system_prompt |-> <<"system prompt of ", profile_name>>,
     user_message |-> Strip(ConversationContext(chat_history)
                            \o <<"\n", "\n", "Current question:", " ">>
                            \o Format(question))]

\* =================================================================== state

VARIABLES
    flows,        \* the flow configurations: name -> "absent" | "disabled" | "enabled"
    connection,   \* the executor's client: "ready" | "no_client" | "no_deployment"
    session,      \* the session store of a chat: the conversation history
    executor,     \* the module state of promptflow_executor.py: the global
                  \* executor, its client handle, and what was constructed
    loop,         \* the task that holds the request loop's thread, or "free"
    pc,           \* per session: "idle", the pipeline step about to run, or "done"
    waiting,      \* the sessions with a completion request in flight
    request,      \* per session: the invocation being served
    frame,        \* per session: the local variables of the running pipeline
    log,          \* per session: the steps of this invocation, in the order run
    outcome,      \* per session: what the invocation returned or raised
    document,     \* the chunker specification: the document under test
    processed_doc, \* the chunker specification: preprocess_document's result
    query,        \* the node specification: question, answer and history
    report        \* the node specification: what each node returned

vars == <<flows, connection, executor, session, loop, pc, waiting, request, frame, log, outcome,
          document, processed_doc, query, report>>

flowVars == <<flows, connection, executor, session, loop, pc, waiting, request, frame, log, outcome>>
docVars == <<document, processed_doc, query, report>>

Sessions == {"s1", "s2"}

\* The session store of a chat that no message handler has run in: which
\* application serves it, whether the key of the history is set, the list
\* stored under it, and every entry a handler has appended so far.
NoSession ==
    [app |-> "none", present |-> FALSE, stored |-> <<>>, appended |-> <<>>]

\* Before the first call of get_promptflow_executor: _executor and
\* _config_loader are None.  Executors and client handles are numbered in
\* the order of their construction, 0 standing for None; returned holds
\* the executors get_promptflow_executor has handed out.
NoExecutor ==
    [instance |-> 0, client |-> 0, loader |-> FALSE,
     executors |-> 0, clients |-> 0, calls |-> 0, returned |-> {}]

\* PromptflowExecutor(): __init__ sets the client to None and runs
\* _initialize_client, which builds the client handle unless the connection
\* configuration is missing or the client's constructor fails.
Construct(state, client_connection) ==
    LET built == client_connection # "no_client"
    IN  [state EXCEPT
            !.instance = state.executors + 1,
            !.executors = state.executors + 1,
            !.loader = TRUE,
            !.client = IF built THEN state.clients + 1 ELSE 0,
            !.clients = IF built THEN state.clients + 1 ELSE state.clients]

\* The module state once app_dynamic.py has been imported: its one call of
\* get_promptflow_executor has constructed the executor.
Started(client_connection) ==
    [Construct(NoExecutor, client_connection) EXCEPT !.calls = 1, !.returned = {1}]

\* The names promptflows.yaml may configure; "unknown_flow" is never configured.
FlowNames == {"document_qa", "chat_assistant", "custom_flow"}

\* config_loader.get_flow_config: None for a name without configuration.
get_flow_config(flow_name) ==
    IF flow_name \in DOMAIN flows /\ flows[flow_name] # "absent"
    THEN [name |-> flow_name, enabled |-> flows[flow_name] = "enabled"]
    ELSE Unset

\* The inputs a flow's configuration marks as required.
RequiredInputs(flow_name) ==
    IF flow_name = "document_qa" THEN {"document_content", "question"}
    ELSE IF flow_name = "chat_assistant" THEN {"question"}
    ELSE {}

\* validate_flow_inputs: defined by the executor, called by none of its
\* callers nor by execute_flow.
validate_flow_inputs(flow_name, inputs) ==
    /\ ~IsUnset(get_flow_config(flow_name))
    /\ \A required_input \in RequiredInputs(flow_name) :
           inputs[required_input] # Missing

\* ---------------------------------------------------------------- pipelines

\* Mutant: the relevance score is computed before the answer is generated.
DocumentQaStepsReordered ==
    <<"preprocess_document", "extract_context", "calculate_relevance",
      "generate_answer", "extract_sources">>

\* _execute_document_qa_flow and app.py's run_promptflow_document_qa.
DocumentQaSteps ==
    <<"preprocess_document", "extract_context", "generate_answer",
      "calculate_relevance", "extract_sources">>

\* _execute_chat_assistant_flow.
ChatAssistantSteps == <<"prepare_prompt", "llm_response", "format_response">>

\* generate_regular_response.
RegularSteps == <<"chat_completion">>

Pipeline(req) ==
    IF req.via = "regular" THEN RegularSteps
    ELSE IF req.flow_name = "chat_assistant" THEN ChatAssistantSteps
    ELSE DocumentQaSteps

\* The steps that call the completion service.
LlmSteps == {"generate_answer", "llm_response", "chat_completion"}

\* The step after `step`, or "return" after the last one.
StepAfter(steps, step) ==
    LET i == CHOOSE k \in 1..Len(steps) : steps[k] = step
    IN  IF i < Len(steps) THEN steps[i + 1] ELSE "return"

\* The executor awaits an AsyncAzureOpenAI client; app.py and
\* generate_regular_response call the synchronous AzureOpenAI client from
\* inside their coroutine, which keeps the loop's thread until it answers.
Blocking(req) == req.via \in {"app", "regular"}

\* Mutant: execute_flow swallows the exception and returns what it has.
PropagatesNever(req) == FALSE

\* Only execute_flow lets an exception out: app.py's
\* run_promptflow_document_qa and generate_regular_response catch it and
\* return an error result.
Propagates(req) == req.via = "executor"

NoRequest ==
    [via |-> "none", flow_name |-> "none",
     inputs |-> [document_content |-> Missing, question |-> Missing,
                 chat_history |-> <<>>]]

\* The local variables of a pipeline before any step has assigned them.
NoFrame ==
    [preprocess_result |-> Unset, extract_context_result |-> Unset,
     prepare_prompt_result |-> Unset, prompt |-> <<>>, answer |-> NoneValue,
     relevance_result |-> Unset, sources_result |-> Unset,
     format_response_result |-> NoneValue, scores_computed |-> 0]

NoOutcome == [kind |-> "none"]

\* ------------------------------------------------------------------ inputs

\* Documents of the flow specifications: empty, blank, one chunk, two chunks.
FlowDocs ==
    {<<>>, <<" ", "\n">>, <<"b", " ", "c", ".">>,
     <<"W", " ", "W", ".", " ", "b", " ", "c", "?">>}

FlowQuestions == {<<"b", "?">>, <<"d">>}

Histories == {<<>>, <<[role |-> "user", content |-> <<"d">>],
                     [role |-> "assistant", content |-> <<"c">>]>>,
              <<[role |-> "user", content |-> <<"b">>],
                [role |-> "assistant", content |-> <<"c">>],
                [role |-> "user", content |-> <<"d">>],
                [role |-> "assistant", content |-> <<"e">>],
                [role |-> "user", content |-> <<"f">>],
                [role |-> "assistant", content |-> <<"g">>]>>}

\* What callers may hand to execute_flow.
ExecutorRequests ==
    {[via |-> "executor", flow_name |-> n,
      inputs |-> [document_content |-> d, question |-> q, chat_history |-> h]] :
        n \in {"document_qa"},
        d \in FlowDocs \cup {Missing, NoneValue},
        q \in FlowQuestions \cup {Missing, NoneValue},
        h \in Histories}
    \cup
    {[via |-> "executor", flow_name |-> n,
      inputs |-> [document_content |-> Missing, question |-> q,
                  chat_history |-> <<>>]] :
        n \in {"chat_assistant", "custom_flow", "unknown_flow"},
        q \in {<<"b", "?">>, Missing}}

\* What app.py's main hands to run_promptflow_document_qa: the message
\* text, and a document that its "if not document_content" guard let pass.
AppRequests ==
    {[via |-> "app", flow_name |-> "document_qa",
      inputs |-> [document_content |-> d, question |-> q, chat_history |-> h]] :
        d \in FlowDocs \ {<<>>}, q \in FlowQuestions, h \in Histories}

\* What app_dynamic.py's main hands to generate_regular_response.
RegularRequests ==
    {[via |-> "regular", flow_name |-> "none",
      inputs |-> [document_content |-> Missing, question |-> q, chat_history |-> h]] :
        q \in FlowQuestions, h \in Histories}

\* What the completion service may answer: a text, an empty content
\* (None), or a failure.
Responses ==
    {[kind |-> "content", content |-> <<"b", " ", "c", ".">>],
     [kind |-> "content", content |-> NoneValue],
     [kind |-> "error", content |-> NoneValue]}

\* --------------------------------------------------------- flow: helpers

\* The mapping a pipeline returns.
Result(req, fr) ==
    IF req.via = "regular" THEN [answer |-> fr.answer]
    ELSE IF req.flow_name = "chat_assistant"
    THEN [answer |-> fr.answer, citations |-> fr.format_response_result]
    ELSE [answer |-> fr.answer,
          relevance_score |-> fr.relevance_result,
          sources |-> fr.sources_result]

\* An exception leaves a step.  execute_flow and its helpers log and
\* re-raise it; app.py's run_promptflow_document_qa and
\* generate_regular_response catch it and return an error result.
Abort(s, req, error) ==
    /\ outcome' = [outcome EXCEPT ![s] =
                      [kind |-> IF Propagates(req) THEN "raised" ELSE "error_result",
                       error |-> error]]
    /\ pc' = [pc EXCEPT ![s] = "done"]
    /\ loop' = "free"
    /\ waiting' = waiting \ {s}

\* A step ends normally: the next statement is the next step, or the
\* return of the result mapping.
Proceed(s, step, newFrame) ==
    LET next == StepAfter(Pipeline(request[s]), step)
    IN  /\ frame' = [frame EXCEPT ![s] = newFrame]
        /\ log' = [log EXCEPT ![s] = Append(@, step)]
        /\ waiting' = waiting \ {s}
        /\ IF next = "return"
           THEN /\ outcome' = [outcome EXCEPT ![s] =
                                  [kind |-> "returned",
                                   result |-> Result(request[s], newFrame)]]
                /\ pc' = [pc EXCEPT ![s] = "done"]
                /\ loop' = "free"
           ELSE /\ pc' = [pc EXCEPT ![s] = next]
                /\ loop' = s
                /\ UNCHANGED outcome

\* A new invocation starts in session s once its previous one has ended
\* and the loop's thread is free to run it.
CanStart(s) == pc[s] \in {"idle", "done"} /\ loop = "free"

Begin(s, req) ==
    /\ request' = [request EXCEPT ![s] = req]
    /\ frame' = [frame EXCEPT ![s] = NoFrame]
    /\ log' = [log EXCEPT ![s] = <<>>]

\* ------------------------------------------------------- flow: the prompts

\* qa_prompt of _execute_document_qa_flow.
ExecutorQaPrompt(extract_context_result, question) ==
    <<"You are an expert document analyst. (task)", "\n", "\n", "Context:", " ">>
    \o extract_context_result.context
    \o <<"\n", "\n", "Question:", " ">> \o Format(question)
    \o <<"\n", "\n", "Please provide a detailed answer (instructions)">>

\* user_prompt of app.py's run_promptflow_document_qa.
AppQaPrompt(context_result, message) ==
    <<"Context from document:", "\n">> \o context_result.context
    \o <<"\n", "\n">> \o context_result.formatted_history
    \o <<"\n", "\n", "Question:", " ">> \o Format(message)
    \o <<"\n", "\n", "Please provide a comprehensive answer (instructions)">>

\* The user content sent by the step about to call the completion service.
PromptOf(req, step, fr) ==
    LET question == Get(req.inputs, "question", <<>>)
    IN  IF step = "generate_answer"
        THEN IF IsUnset(fr.extract_context_result) THEN <<>>
             ELSE IF req.via = "app"
                  THEN AppQaPrompt(fr.extract_context_result, question)
                  ELSE ExecutorQaPrompt(fr.extract_context_result, question)
        ELSE IF step = "llm_response"
        THEN IF IsUnset(fr.prepare_prompt_result) THEN <<>>
             ELSE fr.prepare_prompt_result.user_message
        ELSE Format(question)

\* ------------------------------------------------------ flow: the actions

\* Mutant: the pipeline is chosen by name without consulting the
\* configuration.
DispatchUnchecked(flow_name) ==
    IF flow_name = "chat_assistant" THEN "chat_assistant"
    ELSE IF flow_name = "document_qa" THEN "document_qa"
    ELSE "generic"

\* Mutant: a name that is not chat_assistant runs the document-QA
\* pipeline, there is no generic branch.
DispatchWithoutGeneric(flow_name) ==
    LET flow_config == get_flow_config(flow_name)
    IN  IF IsUnset(flow_config) THEN "not_found"
        ELSE IF ~flow_config.enabled THEN "disabled"
        ELSE IF flow_name = "chat_assistant" THEN "chat_assistant"
        ELSE "document_qa"

\* The dispatch of execute_flow: the configuration is looked up and
\* checked before any pipeline is chosen.
Dispatch(flow_name) ==
    LET flow_config == get_flow_config(flow_name)
    IN  IF IsUnset(flow_config) THEN "not_found"
        ELSE IF ~flow_config.enabled THEN "disabled"
        ELSE IF flow_name = "chat_assistant" THEN "chat_assistant"
        ELSE IF flow_name = "document_qa" THEN "document_qa"
        ELSE "generic"

\* PromptflowExecutor.execute_flow, up to the first step of the pipeline.
ExecuteFlow(s, req) ==
    /\ CanStart(s)
    /\ req.via = "executor"
    /\ Begin(s, req)
    /\ LET target == Dispatch(req.flow_name)
       IN  IF target = "not_found"
           THEN Abort(s, req, "Flow configuration not found")
           ELSE IF target = "disabled"
           THEN Abort(s, req, "Flow is disabled")
           ELSE IF target = "generic"
           THEN /\ outcome' = [outcome EXCEPT ![s] =
                       [kind |-> "returned",
                        result |-> [message |->
                            "Generic flow execution not yet implemented"]]]
                /\ pc' = [pc EXCEPT ![s] = "done"]
                /\ UNCHANGED <<loop, waiting>>
           ELSE /\ outcome' = [outcome EXCEPT ![s] = NoOutcome]
                /\ pc' = [pc EXCEPT ![s] =
                       IF target = "chat_assistant" THEN ChatAssistantSteps[1]
                       ELSE DocumentQaSteps[1]]
                /\ loop' = s
                /\ UNCHANGED waiting
    /\ UNCHANGED <<flows, connection, executor, session, docVars>>

\* app.py: main calls run_promptflow_document_qa.
RunDocumentQa(s, req) ==
    /\ CanStart(s)
    /\ req.via = "app"
    /\ Begin(s, req)
    /\ outcome' = [outcome EXCEPT ![s] = NoOutcome]
    /\ pc' = [pc EXCEPT ![s] = DocumentQaSteps[1]]
    /\ loop' = s
    /\ UNCHANGED <<flows, connection, executor, session, waiting, docVars>>

\* app_dynamic.py: main calls generate_regular_response.
GenerateRegularResponse(s, req) ==
    /\ CanStart(s)
    /\ req.via = "regular"
    /\ Begin(s, req)
    /\ outcome' = [outcome EXCEPT ![s] = NoOutcome]
    /\ pc' = [pc EXCEPT ![s] = RegularSteps[1]]
    /\ loop' = s
    /\ UNCHANGED <<flows, connection, executor, session, waiting, docVars>>

\* A step runs in the task that holds the loop's thread.
Running(s, step) == pc[s] = step /\ loop = s /\ s \notin waiting

\* Step 1: preprocess_document(document_content, question).  A document
\* that is None fails at document_content.strip().
PreprocessDocumentNode(s) ==
    /\ Running(s, "preprocess_document")
    /\ LET document_content == Get(request[s].inputs, "document_content", <<>>)
           question == Get(request[s].inputs, "question", <<>>)
       IN  IF IsNone(document_content)
           THEN Abort(s, request[s], "AttributeError") /\ UNCHANGED <<frame, log>>
           ELSE Proceed(s, "preprocess_document",
                        [frame[s] EXCEPT !.preprocess_result =
                            preprocess_document(document_content, question)])
    /\ UNCHANGED <<flows, connection, executor, session, request, docVars>>

\* Mutant: extract_context sorts the document's own chunk list by score
\* instead of a list of its own.
ExtractContextNodeSortingInPlace(s) ==
    /\ Running(s, "extract_context")
    /\ LET processed == frame[s].preprocess_result
           question == Get(request[s].inputs, "question", <<>>)
           chat_history == request[s].inputs.chat_history
       IN  IF IsUnset(processed)
           THEN Abort(s, request[s], "NameError") /\ UNCHANGED <<frame, log>>
           ELSE IF processed.chunks # <<>> /\ IsNone(question)
           THEN Abort(s, request[s], "AttributeError") /\ UNCHANGED <<frame, log>>
           ELSE LET ranked == SortByScore(ScoreChunks(processed.chunks, question))
                IN  Proceed(s, "extract_context",
                        [frame[s] EXCEPT
                            !.extract_context_result =
                                extract_context(processed, question, chat_history),
                            !.scores_computed = ChunkScoresComputed(processed),
                            !.preprocess_result.chunks =
                                [i \in 1..Len(ranked) |-> ranked[i].chunk]])
    /\ UNCHANGED <<flows, connection, executor, session, request, docVars>>

\* Step 2: extract_context(processed_doc, question, chat_history).  With
\* chunks present, a question that is None fails at question.lower().
ExtractContextNode(s) ==
    /\ Running(s, "extract_context")
    /\ LET processed == frame[s].preprocess_result
           question == Get(request[s].inputs, "question", <<>>)
           chat_history == request[s].inputs.chat_history
       IN  IF IsUnset(processed)
           THEN Abort(s, request[s], "NameError") /\ UNCHANGED <<frame, log>>
           ELSE IF processed.chunks # <<>> /\ IsNone(question)
           THEN Abort(s, request[s], "AttributeError") /\ UNCHANGED <<frame, log>>
           ELSE Proceed(s, "extract_context",
                        [frame[s] EXCEPT
                            !.extract_context_result =
                                extract_context(processed, question, chat_history),
                            !.scores_computed = ChunkScoresComputed(processed)])
    /\ UNCHANGED <<flows, connection, executor, session, request, docVars>>

\* The completion step, up to the request: _execute_llm_node checks the
\* client and the deployment name and awaits the service, which hands the
\* loop's thread back; app.py and generate_regular_response call the
\* synchronous client and keep the thread.
CompletionCall(s) ==
    /\ pc[s] \in LlmSteps
    /\ loop = s
    /\ s \notin waiting
    /\ IF request[s].via = "executor" /\ connection = "no_client"
       THEN Abort(s, request[s], "Azure OpenAI client not initialized")
            /\ UNCHANGED <<frame, log>>
       ELSE IF request[s].via = "executor" /\ connection = "no_deployment"
       THEN Abort(s, request[s], "Azure OpenAI deployment name not configured")
            /\ UNCHANGED <<frame, log>>
       ELSE /\ waiting' = waiting \cup {s}
            /\ frame' = [frame EXCEPT ![s].prompt =
                            PromptOf(request[s], pc[s], frame[s])]
            /\ log' = [log EXCEPT ![s] = Append(@, "completion_call")]
            /\ loop' = IF Blocking(request[s]) THEN s ELSE "free"
            /\ UNCHANGED <<pc, outcome>>
    /\ UNCHANGED <<flows, connection, executor, session, request, docVars>>

\* Mutant: a suspended task is never resumed.
CanResumeNever(s) == FALSE

\* The loop can run the continuation of session s: a blocking call returns
\* into the thread it kept, an awaited one resumes when the thread is free.
CanResume(s) == loop = (IF Blocking(request[s]) THEN s ELSE "free")

\* Mutant: the failed request is sent again.
OnCompletionErrorRetry(s) ==
    /\ log' = [log EXCEPT ![s] = Append(@, "completion_call")]
    /\ UNCHANGED <<loop, pc, waiting, frame, outcome>>

\* The service fails: the except clause of _execute_llm_node logs the
\* error and re-raises it; no second request is made.
OnCompletionError(s) ==
    Abort(s, request[s], "completion service error") /\ UNCHANGED <<frame, log>>

\* The completion service answers or fails.  _execute_llm_node returns
\* "result or ''"; app.py and generate_regular_response keep the content
\* as it is.
CompletionReturn(s, response) ==
    /\ s \in waiting
    /\ CanResume(s)
    /\ IF response.kind = "error"
       THEN OnCompletionError(s)
       ELSE LET content ==
                   IF request[s].via = "executor" /\ IsNone(response.content)
                   THEN <<>> ELSE response.content
            IN  Proceed(s, pc[s], [frame[s] EXCEPT !.answer = content])
    /\ UNCHANGED <<flows, connection, executor, session, request, docVars>>

\* The context a later step reads: extract_context_result.get("context", "").
ContextOf(fr) ==
    IF IsUnset(fr.extract_context_result) THEN <<>>
    ELSE fr.extract_context_result.context

\* Step 4: calculate_relevance(question, answer, context); it catches its
\* own exceptions.
CalculateRelevanceNode(s) ==
    /\ Running(s, "calculate_relevance")
    /\ LET result == calculate_relevance(Get(request[s].inputs, "question", <<>>),
                                         frame[s].answer, ContextOf(frame[s]))
       IN  IF result.raised
           THEN Abort(s, request[s], "calculate_relevance") /\ UNCHANGED <<frame, log>>
           ELSE Proceed(s, "calculate_relevance",
                        [frame[s] EXCEPT !.relevance_result = result])
    /\ UNCHANGED <<flows, connection, executor, session, request, docVars>>

\* Step 5: extract_sources(processed_doc, context, answer); it catches its
\* own exceptions.
ExtractSourcesNode(s) ==
    /\ Running(s, "extract_sources")
    /\ IF IsUnset(frame[s].preprocess_result)
       THEN Abort(s, request[s], "NameError") /\ UNCHANGED <<frame, log>>
       ELSE LET result == extract_sources(frame[s].preprocess_result,
                                          ContextOf(frame[s]), frame[s].answer)
            IN  IF result.raised
                THEN Abort(s, request[s], "extract_sources")
                     /\ UNCHANGED <<frame, log>>
                ELSE Proceed(s, "extract_sources",
                             [frame[s] EXCEPT !.sources_result = result])
    /\ UNCHANGED <<flows, connection, executor, session, request, docVars>>

\* Chat assistant, step 1: prepare_prompt(chat_history, question, profile_name).
PreparePromptNode(s) ==
    /\ Running(s, "prepare_prompt")
    /\ Proceed(s, "prepare_prompt",
               [frame[s] EXCEPT !.prepare_prompt_result =
                   prepare_prompt(request[s].inputs.chat_history,
                                  Get(request[s].inputs, "question", <<>>),
                                  "Assistant")])
    /\ UNCHANGED <<flows, connection, executor, session, request, docVars>>

\* format_response(llm_output, profile_name): the profile-aware
\* post-formatting pass over the model's answer.
format_response(llm_output, profile_name) == llm_output

\* Chat assistant, step 3.
FormatResponseNode(s) ==
    /\ Running(s, "format_response")
    /\ Proceed(s, "format_response",
               [frame[s] EXCEPT !.format_response_result =
                   format_response(frame[s].answer, "Assistant")])
    /\ UNCHANGED <<flows, connection, executor, session, request, docVars>>

\* ---------------------------------------------------------- specification

ShippedFlows == [n \in FlowNames |-> "enabled"]

\* The configurations considered: the working one, and those that differ
\* from it in one entry or in the client's connection.
Configurations ==
    {c \in [flows : [FlowNames -> {"absent", "disabled", "enabled"}],
            connection : {"ready", "no_client", "no_deployment"}] :
        Cardinality({n \in FlowNames : c.flows[n] # "enabled"})
            + (IF c.connection = "ready" THEN 0 ELSE 1) <= 1}

IdleInit ==
    /\ loop = "free"
    /\ pc = [s \in Sessions |-> "idle"]
    /\ waiting = {}
    /\ request = [s \in Sessions |-> NoRequest]
    /\ frame = [s \in Sessions |-> NoFrame]
    /\ log = [s \in Sessions |-> <<>>]
    /\ outcome = [s \in Sessions |-> NoOutcome]

NoQuery == [question |-> <<>>, answer |-> <<>>, chat_history |-> <<>>]

NoReport ==
    [context_result |-> Unset, relevance |-> Unset, sources |-> Unset,
     scores_computed |-> 0, latest |-> Unset, repeat |-> Unset]

NoDocInit ==
    /\ document = <<>>
    /\ processed_doc = Unset
    /\ query = NoQuery
    /\ report = NoReport

\* One caller, every request and every configuration.
Caller == "s1"

Init ==
    /\ \E c \in Configurations : flows = c.flows /\ connection = c.connection
    /\ executor = Started(connection)
    /\ session = NoSession
    /\ IdleInit
    /\ NoDocInit

\* What a task does on its own, holding the loop's thread.
LocalStep(s) ==
    \/ PreprocessDocumentNode(s)
    \/ ExtractContextNode(s)
    \/ CompletionCall(s)
    \/ CalculateRelevanceNode(s)
    \/ ExtractSourcesNode(s)
    \/ PreparePromptNode(s)
    \/ FormatResponseNode(s)

\* The completion service ends a request of session s.
ServiceStep(s) == \E response \in Responses : CompletionReturn(s, response)

Step(s) == LocalStep(s) \/ ServiceStep(s)

Next ==
    \/ \E req \in ExecutorRequests : ExecuteFlow(Caller, req)
    \/ \E req \in AppRequests : RunDocumentQa(Caller, req)
    \/ \E req \in RegularRequests : GenerateRegularResponse(Caller, req)
    \/ Step(Caller)

Spec == Init /\ [][Next]_vars

\* ------------------------------------------- specification: two sessions

\* Two chat sessions served by one event loop, with the shipped
\* configuration: each sends messages that go to the executor, to app.py's
\* run_promptflow_document_qa or to generate_regular_response.
LoopRequests ==
    {req \in ExecutorRequests \cup AppRequests \cup RegularRequests :
        /\ req.inputs.chat_history = <<>>
        /\ req.inputs.question = <<"b", "?">>
        /\ req.inputs.document_content \in {Missing, <<"b", " ", "c", ".">>}
        /\ req.flow_name \in {"document_qa", "chat_assistant", "none"}}

LoopInit ==
    /\ flows = ShippedFlows
    /\ connection = "ready"
    /\ executor = Started(connection)
    /\ session = NoSession
    /\ IdleInit
    /\ NoDocInit

LoopNext ==
    \E s \in Sessions :
        \/ \E req \in LoopRequests : ExecuteFlow(s, req)
        \/ \E req \in LoopRequests : RunDocumentQa(s, req)
        \/ \E req \in LoopRequests : GenerateRegularResponse(s, req)
        \/ LocalStep(s)
        \/ ServiceStep(s)

LoopSpec == LoopInit /\ [][LoopNext]_vars

\* The loop runs a ready task to its next await (its ready queue is first
\* in, first out, and no step of a flow waits for anything but the
\* completion service), and the service ends every request it was sent: a
\* continuation that is ready again and again is eventually run.
Fairness ==
    \A s \in Sessions : WF_vars(LocalStep(s)) /\ SF_vars(ServiceStep(s))

FairSpec == LoopSpec /\ Fairness

\* ------------------------------------------- specification: the chunker

DocAlphabet == {"a", "W", " ", "\n", ".", "?"}

\* The symbols of the longer documents: enough for a sentence of more
\* than TargetWords words with sentences before and after it.
LongDocAlphabet == {"a", "W", " ", "."}

Documents ==
    UNION {[1..n -> DocAlphabet] : n \in 0..MaxDocLen}
    \cup UNION {[1..n -> LongDocAlphabet] : n \in 0..(MaxDocLen + 2)}

DocInit ==
    /\ flows = ShippedFlows
    /\ connection = "ready"
    /\ executor = Started(connection)
    /\ session = NoSession
    /\ IdleInit
    /\ document \in Documents
    /\ processed_doc = Unset
    /\ query = NoQuery
    /\ report = NoReport

\* preprocess_document is applied to the document.
PreprocessDocument ==
    /\ IsUnset(processed_doc)
    /\ processed_doc' = preprocess_document(document, <<>>)
    /\ UNCHANGED <<document, query, report, flowVars>>

DocNext == PreprocessDocument

DocSpec == DocInit /\ [][DocNext]_vars

\* --------------------------------------------- specification: the nodes

\* The sentences the documents of this specification are made of: three
\* of TargetWords words or more, which fill a chunk each, and a short one.
NodeSentences ==
    {<<"W", " ", "W", " ", "b">>, <<"W", " ", "W", " ", "c">>,
     <<"W", " ", "W">>, <<"b", " ", "c">>}

\* Most sentences in a document of this specification.
MaxSentences == 3

\* The document with the given sentences.
RECURSIVE DocumentOf(_)
DocumentOf(sentences) ==
    IF sentences = <<>> THEN <<>>
    ELSE IF Len(sentences) = 1 THEN Head(sentences) \o <<".">>
    ELSE Head(sentences) \o <<".", " ">> \o DocumentOf(Tail(sentences))

\* The sentences that fill a chunk each.
LongSentences == {sentence \in NodeSentences : WordCount(sentence) >= TargetWords}

\* Every document of up to MaxSentences sentences, the documents of one
\* chunk more than extract_context selects, and two without a sentence.
NodeDocuments ==
    {DocumentOf(sentences) :
        sentences \in UNION {[1..n -> NodeSentences] : n \in 0..MaxSentences}}
    \cup {DocumentOf(sentences) :
             sentences \in [1..(MaxSentences + 1) -> LongSentences]}
    \cup {<<" ", "\n">>, <<".">>}

NodeQuestions ==
    {<<>>, <<"b", "?">>, <<"B", " ", "c">>, <<"the", " ", "d">>,
     <<"b", " ", "c", " ", "d">>}

NodeAnswers == {<<>>, <<"b", " ", "c", ".">>, <<"the", " ", "b">>}

NodeInit ==
    /\ flows = ShippedFlows
    /\ connection = "ready"
    /\ executor = Started(connection)
    /\ session = NoSession
    /\ IdleInit
    /\ document \in NodeDocuments
    /\ processed_doc = Unset
    /\ query \in [question : NodeQuestions, answer : NodeAnswers,
                  chat_history : Histories]
    /\ report = NoReport

\* extract_context is called on the processed document.
CallExtractContext ==
    /\ ~IsUnset(processed_doc)
    /\ IsUnset(report.context_result)
    /\ report' = [report EXCEPT
                      !.context_result =
                          extract_context(processed_doc, query.question,
                                          query.chat_history),
                      !.scores_computed = ChunkScoresComputed(processed_doc),
                      !.latest =
                          extract_context(processed_doc, query.question,
                                          query.chat_history)]
    /\ UNCHANGED <<document, processed_doc, query, flowVars>>

\* calculate_relevance is called with the context extract_context built.
CallCalculateRelevance ==
    /\ ~IsUnset(report.context_result)
    /\ IsUnset(report.relevance)
    /\ report' = [report EXCEPT !.relevance =
                      calculate_relevance(query.question, query.answer,
                                          report.context_result.context)]
    /\ UNCHANGED <<document, processed_doc, query, flowVars>>

\* extract_sources is called with the context extract_context built.
CallExtractSources ==
    /\ ~IsUnset(report.context_result)
    /\ IsUnset(report.sources)
    /\ report' = [report EXCEPT !.sources =
                      extract_sources(processed_doc,
                                      report.context_result.context,
                                      query.answer)]
    /\ UNCHANGED <<document, processed_doc, query, flowVars>>

NodeNext ==
    \/ PreprocessDocument
    \/ CallExtractContext
    \/ CallCalculateRelevance
    \/ CallExtractSources

NodeSpec == NodeInit /\ [][NodeNext]_vars

\* ------------------------------------ specification: quoted sentences

\* Documents of one chunk, and the answers that a completion may give
\* about them: sentences of five, eleven and twenty words, with and
\* without a phrase of the document, and one of two words far apart.
QuoteDocuments ==
    {<<"b", " ", "c", " ", "b", " ", "c", " ", "b", " ", "c", ".">>,
     <<"c", " ", "b", ".", " ", "a", " ", "a", " ", "a", " ", "a", " ", "a", ".">>}

\* n words, alternately first and second.
Alternating(first, second, n) ==
    Join([i \in 1..n |-> IF i % 2 = 1 THEN <<first>> ELSE <<second>>], <<" ">>)

QuoteAnswers ==
    {Alternating("b", "c", 5) \o <<".">>,
     Alternating("b", "c", 11) \o <<".">>,
     Alternating("B", "c", 11) \o <<"!", " ">> \o Alternating("b", "c", 20) \o <<".">>,
     Alternating("c", "c", 11) \o <<".">>,
     Alternating("a", "a", 11) \o <<"?", " ">> \o Alternating("b", "c", 11),
     <<"b">> \o [i \in 1..QuoteChars |-> " "] \o <<"c", ".">>}

QuoteInit ==
    /\ flows = ShippedFlows
    /\ connection = "ready"
    /\ executor = Started(connection)
    /\ session = NoSession
    /\ IdleInit
    /\ document \in QuoteDocuments
    /\ processed_doc = Unset
    /\ query \in [question : NodeQuestions, answer : QuoteAnswers,
                  chat_history : {<<>>}]
    /\ report = NoReport

QuoteSpec == QuoteInit /\ [][NodeNext]_vars

\* -------------------------------------- specification: repeated calls

\* The questions of the calls that follow the first one.
LaterQuestions == {<<"b", "?">>, <<"the", " ", "d">>}

RepeatInit ==
    /\ flows = ShippedFlows
    /\ connection = "ready"
    /\ executor = Started(connection)
    /\ session = NoSession
    /\ IdleInit
    /\ document \in NodeDocuments
    /\ processed_doc = Unset
    /\ query \in [question : NodeQuestions, answer : {<<>>},
                  chat_history : Histories]
    /\ report = NoReport

\* Mutant: chunk_scores is not emptied between calls, the entries the
\* previous call ranked first are still in it.
CallExtractContextAgainKept(question) ==
    /\ ~IsUnset(report.context_result)
    /\ LET chunks == processed_doc.chunks
           kept == [i \in 1..Len(report.latest.relevant_chunks) |->
                       [index |-> report.latest.relevant_chunks[i].index,
                        chunk |-> chunks[report.latest.relevant_chunks[i].index + 1],
                        score |-> report.latest.relevant_chunks[i].score]]
           result ==
               IF chunks = <<>>
               THEN extract_context(processed_doc, question, query.chat_history)
               ELSE RankAndSelect(kept \o ScoreChunks(chunks, question), chunks,
                                  query.chat_history)
       IN  report' = [report EXCEPT
                         !.latest = result,
                         !.repeat = IF question = query.question
                                    THEN result ELSE @]
    /\ UNCHANGED <<document, processed_doc, query, flowVars>>

\* extract_context is called once more on the same processed document,
\* with a question of another message or with the first call's arguments.
CallExtractContextAgain(question) ==
    /\ ~IsUnset(report.context_result)
    /\ LET result == extract_context(processed_doc, question, query.chat_history)
       IN  report' = [report EXCEPT
                         !.latest = result,
                         !.repeat = IF question = query.question
                                    THEN result ELSE @]
    /\ UNCHANGED <<document, processed_doc, query, flowVars>>

RepeatNext ==
    \/ PreprocessDocument
    \/ CallExtractContext
    \/ \E question \in LaterQuestions \cup {query.question} :
           CallExtractContextAgain(question)

RepeatSpec == RepeatInit /\ [][RepeatNext]_vars

\* ------------------------------------ specification: the global executor

\* Mutant: get_promptflow_executor without its test of _executor.
GetPromptflowExecutorFresh ==
    /\ executor.calls < MaxCalls
    /\ \E loads \in BOOLEAN :
           IF ~executor.loader /\ ~loads
           THEN executor' = [executor EXCEPT !.calls = @ + 1]
           ELSE LET constructed == Construct(executor, connection)
                IN  executor' = [constructed EXCEPT
                                    !.calls = @ + 1,
                                    !.returned = @ \cup {constructed.instance}]
    /\ UNCHANGED <<flows, connection, session, loop, pc, waiting, request,
                   frame, log, outcome, docVars>>

\* get_promptflow_executor: the global executor, constructed on the first
\* call that finds none.  The constructor raises when the configuration
\* loader cannot be created (its files do not load); _executor then stays
\* None and the exception reaches the caller.
GetPromptflowExecutor ==
    /\ executor.calls < MaxCalls
    /\ \E loads \in BOOLEAN :
           IF executor.instance # 0
           THEN executor' = [executor EXCEPT
                                !.calls = @ + 1,
                                !.returned = @ \cup {executor.instance}]
           ELSE IF ~executor.loader /\ ~loads
           THEN executor' = [executor EXCEPT !.calls = @ + 1]
           ELSE LET constructed == Construct(executor, connection)
                IN  executor' = [constructed EXCEPT
                                    !.calls = @ + 1,
                                    !.returned = @ \cup {constructed.instance}]
    /\ UNCHANGED <<flows, connection, session, loop, pc, waiting, request,
                   frame, log, outcome, docVars>>

ExecutorInit ==
    /\ \E c \in Configurations : flows = c.flows /\ connection = c.connection
    /\ executor = NoExecutor
    /\ session = NoSession
    /\ IdleInit
    /\ NoDocInit

\* Callers obtain the executor and run flows on it, in any order.
ExecutorNext ==
    \/ GetPromptflowExecutor
    \/ /\ executor.instance # 0
       /\ \E req \in ExecutorRequests : ExecuteFlow(Caller, req)
    \/ Step(Caller)

ExecutorSpec == ExecutorInit /\ [][ExecutorNext]_vars

\* --------------------------------------- specification: the chat history

\* The entries a stored history is cut to: message_history[-20:] of
\* app_dynamic.py, chat_history[-10:] of app.py.
DynamicWindow == 20
AppWindow == 10

\* The two entries a handler appends for message n.
UserTurn(n) == [role |-> "user", turn |-> n]
AssistantTurn(n) == [role |-> "assistant", turn |-> n]

\* The number of the message being handled.
Arriving == Len(SelectSeq(session.appended, LAMBDA e : e.role = "user")) + 1

\* app.py: on_chat_start stores an empty list; app_dynamic.py stores
\* nothing before its first handled message.
HistoryInit ==
    /\ flows = ShippedFlows
    /\ connection = "ready"
    /\ executor = Started(connection)
    /\ session \in {[NoSession EXCEPT !.app = "app_dynamic"],
                    [NoSession EXCEPT !.app = "app", !.present = TRUE]}
    /\ IdleInit
    /\ NoDocInit

\* A handler that raises, or returns, before it reaches the update of the
\* history: the store is as it was.
MainRaises ==
    /\ session.app \in {"app", "app_dynamic"}
    /\ UNCHANGED vars

\* app_dynamic.py main, a message that gets its response: both turns are
\* appended to the list read from the store, the list is replaced by its
\* last twenty entries when it holds more, and it is stored.
DynamicMainReplies ==
    /\ session.app = "app_dynamic"
    /\ Arriving <= MaxMessages
    /\ LET message_history ==
               session.stored \o <<UserTurn(Arriving), AssistantTurn(Arriving)>>
       IN  session' = [session EXCEPT
               !.present = TRUE,
               !.appended = @ \o <<UserTurn(Arriving), AssistantTurn(Arriving)>>,
               !.stored = IF Len(message_history) > DynamicWindow
                          THEN Last(message_history, DynamicWindow)
                          ELSE message_history]
    /\ UNCHANGED <<flows, connection, executor, loop, pc, waiting, request,
                   frame, log, outcome, docVars>>

\* app_dynamic.py main, a message with elements none of which is a
\* cl.File, in a profile that supports file upload: no branch assigns
\* response_text.  The user turn is appended, building the assistant turn
\* raises UnboundLocalError, and the handler ends in its except clause.
\* The list appended to is the stored one once the key is set, and the
\* default list of this call before.
DynamicMainUnbound ==
    /\ session.app = "app_dynamic"
    /\ Arriving <= MaxMessages
    /\ session' = IF session.present
                  THEN [session EXCEPT
                           !.appended = Append(@, UserTurn(Arriving)),
                           !.stored = Append(@, UserTurn(Arriving))]
                  ELSE session
    /\ UNCHANGED <<flows, connection, executor, loop, pc, waiting, request,
                   frame, log, outcome, docVars>>

\* app.py main, a message that gets its response: both turns are appended
\* and the last ten entries of the list are stored.
AppMainReplies ==
    /\ session.app = "app"
    /\ Arriving <= MaxMessages
    /\ session' = [session EXCEPT
           !.appended = @ \o <<UserTurn(Arriving), AssistantTurn(Arriving)>>,
           !.stored = Last(@ \o <<UserTurn(Arriving), AssistantTurn(Arriving)>>,
                           AppWindow)]
    /\ UNCHANGED <<flows, connection, executor, loop, pc, waiting, request,
                   frame, log, outcome, docVars>>

\* The messages of one chat are handled one after another.
HistoryNext ==
    \/ MainRaises
    \/ DynamicMainReplies
    \/ DynamicMainUnbound
    \/ AppMainReplies

HistorySpec == HistoryInit /\ [][HistoryNext]_vars

\* ================================================================== claims

IsPrefix(a, b) == Len(a) <= Len(b) /\ SubSeq(b, 1, Len(a)) = a

Count(seq, x) == Cardinality({i \in 1..Len(seq) : seq[i] = x})

\* The completion-service requests of session s's invocation.
CompletionCalls(s) == Count(log[s], "completion_call")

\* Session s serves a document_qa invocation (of the executor or of app.py).
IsDocumentQa(s) ==
    request[s].via \in {"executor", "app"} /\ request[s].flow_name = "document_qa"

\* Session s serves an execute_flow call that reached a pipeline.
InExecutorPipeline(s) ==
    /\ request[s].via = "executor"
    /\ request[s].flow_name \in {"document_qa", "chat_assistant"}
    /\ flows[request[s].flow_name] = "enabled"

DocumentQaLog ==
    <<"preprocess_document", "extract_context", "completion_call",
      "generate_answer", "calculate_relevance", "extract_sources">>

ChatAssistantLog ==
    <<"prepare_prompt", "completion_call", "llm_response", "format_response">>

FullLog(s) ==
    IF request[s].flow_name = "chat_assistant" THEN ChatAssistantLog
    ELSE DocumentQaLog

\* C1: in every document_qa invocation the steps taken so far are an
\* initial part of preprocess_document, extract_context, completion call,
\* completion return, calculate_relevance, extract_sources; nothing runs
\* between the completion call and its return; and an invocation that
\* returned its result ran all of them, with exactly one completion call.
C1_DocumentQaStepOrder ==
    \A s \in Sessions :
        IsDocumentQa(s) =>
            /\ IsPrefix(log[s], DocumentQaLog)
            /\ (s \in waiting => log[s][Len(log[s])] = "completion_call")
            /\ (outcome[s].kind = "returned" =>
                    log[s] = DocumentQaLog /\ CompletionCalls(s) = 1)

C1_Witness ==
    \E s \in Sessions :
        /\ IsDocumentQa(s)
        /\ request[s].via = "executor"
        /\ outcome[s].kind = "returned"
        /\ log[s] = DocumentQaLog

\* C2: an execute_flow call that reached a pipeline either returns a result
\* after all steps ran, or raises: an invocation that ended before its last
\* step has raised, holds no result mapping, and runs nothing further.
C2_AllOrNothing ==
    \A s \in Sessions :
        InExecutorPipeline(s) =>
            /\ outcome[s].kind \in {"none", "returned", "raised"}
            /\ (outcome[s].kind = "returned" => log[s] = FullLog(s))
            /\ (pc[s] = "done" /\ log[s] # FullLog(s) => outcome[s].kind = "raised")
            /\ (outcome[s].kind = "raised" =>
                    /\ pc[s] = "done"
                    /\ s \notin waiting
                    /\ loop # s
                    /\ "result" \notin DOMAIN outcome[s]
                    /\ log[s] # FullLog(s))

C2_Witness ==
    \E s \in Sessions :
        /\ InExecutorPipeline(s)
        /\ outcome[s].kind = "raised"
        /\ log[s] = <<"preprocess_document">>

\* C3: an execute_flow call whose flow name has no configuration, or a
\* configuration that is not enabled, has raised the configuration error
\* and has run no step and made no completion call.
C3_UnconfiguredOrDisabledFailsFast ==
    \A s \in Sessions :
        /\ request[s].via = "executor"
        /\ (request[s].flow_name \notin DOMAIN flows
            \/ flows[request[s].flow_name] # "enabled")
        => /\ pc[s] = "done"
           /\ log[s] = <<>>
           /\ s \notin waiting
           /\ outcome[s].kind = "raised"
           /\ outcome[s].error =
                  IF request[s].flow_name \in DOMAIN flows
                     /\ flows[request[s].flow_name] = "disabled"
                  THEN "Flow is disabled"
                  ELSE "Flow configuration not found"

C3_Witness ==
    \E s \in Sessions :
        /\ request[s].via = "executor"
        /\ request[s].flow_name = "document_qa"
        /\ flows["document_qa"] = "disabled"
        /\ outcome[s].kind = "raised"

\* A required input of the flow is absent from the input mapping.
LacksRequiredInput(s) ==
    \E k \in RequiredInputs(request[s].flow_name) : request[s].inputs[k] = Missing

\* C4: an execute_flow call that lacks a required input runs no step of
\* the pipeline and returns no result.
C4_MissingRequiredInputFails ==
    \A s \in Sessions :
        InExecutorPipeline(s) /\ LacksRequiredInput(s) =>
            log[s] = <<>> /\ outcome[s].kind # "returned"

\* The document of session s's invocation is a text that is empty or
\* whitespace only.
HasBlankDocument(s) ==
    LET document_content == Get(request[s].inputs, "document_content", <<>>)
    IN  ~IsNone(document_content) /\ Strip(document_content) = <<>>

\* C5: a document_qa invocation on an empty or whitespace-only document
\* scores no chunk and makes no completion call.
C5_BlankDocumentSkipsCompletion ==
    \A s \in Sessions :
        IsDocumentQa(s) /\ HasBlankDocument(s) =>
            CompletionCalls(s) = 0 /\ frame[s].scores_computed = 0

\* C6: once the completion call of a document_qa invocation has returned,
\* the invocation never raises nor ends in an error result: it ends by
\* returning the answer received, with the relevance and source reports
\* (or their error texts) in their fields.
C6_AnswerAlwaysReturned ==
    \A s \in Sessions :
        IsDocumentQa(s) /\ Count(log[s], "generate_answer") > 0 =>
            /\ outcome[s].kind \in {"none", "returned"}
            /\ (pc[s] = "done" =>
                    /\ outcome[s].kind = "returned"
                    /\ outcome[s].result.answer = frame[s].answer
                    /\ outcome[s].result.relevance_score = frame[s].relevance_result
                    /\ outcome[s].result.sources = frame[s].sources_result
                    /\ ~IsUnset(frame[s].relevance_result)
                    /\ ~IsUnset(frame[s].sources_result))

C6_Witness ==
    \E s \in Sessions :
        /\ IsDocumentQa(s)
        /\ outcome[s].kind = "returned"
        /\ outcome[s].result.relevance_score.error

\* C7: no invocation makes more than one completion call, and an
\* execute_flow call that ended on a failed completion call has raised the
\* service's error.
C7_CompletionNeverRetried ==
    \A s \in Sessions :
        /\ CompletionCalls(s) <= 1
        /\ (/\ request[s].via = "executor"
            /\ pc[s] = "done"
            /\ log[s] # <<>>
            /\ log[s][Len(log[s])] = "completion_call"
            => outcome[s] = [kind |-> "raised", error |-> "completion service error"])

C7_Witness ==
    \E s \in Sessions :
        /\ request[s].via = "executor"
        /\ CompletionCalls(s) = 1
        /\ outcome[s] = [kind |-> "raised", error |-> "completion service error"]

\* C8: a session that waits for its completion call does not hold the
\* loop's thread, so the handler of another session can run meanwhile.
C8_CompletionCallReleasesLoop ==
    \A s \in Sessions : s \in waiting => loop # s

\* A flow invocation of session s has started and has not ended.
InFlight(s) == pc[s] \notin {"idle", "done"}

\* Between its steps an invocation only moves on to its next step or ends,
\* and while a task holds the thread no other session's invocation moves.
NoPreemption ==
    \A s \in Sessions :
        /\ (InFlight(s) /\ pc'[s] # pc[s] =>
                /\ request'[s] = request[s]
                /\ pc'[s] \in {"done", StepAfter(Pipeline(request[s]), pc[s])})
        /\ (InFlight(s) /\ loop = s /\ s \notin waiting =>
                \A t \in Sessions \ {s} :
                    /\ pc'[t] = pc[t]
                    /\ log'[t] = log[t]
                    /\ outcome'[t] = outcome[t])

\* An invocation has ended by returning its result or by an error.
Ended(s) ==
    /\ pc[s] = "done"
    /\ s \notin waiting
    /\ outcome[s].kind \in {"returned", "raised", "error_result"}

\* C9: every flow invocation that has started eventually ends, by
\* returning its result or by an error, when the completion service ends
\* every request; until then it is neither cancelled nor preempted.
C9_StartedFlowsEnd ==
    /\ [][NoPreemption]_vars
    /\ \A s \in Sessions : InFlight(s) ~> Ended(s)

C9_Witness ==
    \E s \in Sessions :
        /\ request[s].via = "executor"
        /\ request[s].flow_name = "document_qa"
        /\ Ended(s)
        /\ CompletionCalls(s) = 1
        /\ \E t \in Sessions \ {s} : InFlight(t)

\* The non-empty sentences of a text, in order: the maximal stretches
\* without a terminator, stripped, the empty ones left out.
SentenceSpans(text) ==
    {span \in (1..Len(text)) \X (1..Len(text)) :
        /\ span[1] <= span[2]
        /\ \A i \in span[1]..span[2] : ~IsTerminator(text[i])
        /\ (span[1] = 1 \/ IsTerminator(text[span[1] - 1]))
        /\ (span[2] = Len(text) \/ IsTerminator(text[span[2] + 1]))
        /\ Strip(SubSeq(text, span[1], span[2])) # <<>>}

SentencesOf(text) ==
    LET spans == SentenceSpans(text)
        nth(i) == CHOOSE span \in spans :
                      Cardinality({other \in spans : other[1] < span[1]}) = i - 1
    IN  [i \in 1..Cardinality(spans) |->
            Strip(SubSeq(text, nth(i)[1], nth(i)[2]))]

\* The chunks are the sentences, in order, cut into consecutive non-empty
\* groups, each chunk being the sentences of its group joined by a space.
RECURSIVE Regroups(_, _)
Regroups(sentences, chunks) ==
    IF chunks = <<>>
    THEN sentences = <<>>
    ELSE \E k \in 1..Len(sentences) :
            /\ chunks[1] = Join(SubSeq(sentences, 1, k), <<" ">>)
            /\ Regroups(SubSeq(sentences, k + 1, Len(sentences)), Tail(chunks))

\* C10: for every document that is not blank, the chunks of
\* preprocess_document hold exactly the non-empty sentences of the
\* whitespace-collapsed text, in order, each sentence once and whole in
\* one chunk.
C10_ChunksKeepSentences ==
    ~IsUnset(processed_doc) /\ Strip(document) # <<>> =>
        Regroups(SentencesOf(CollapseWhitespace(Strip(document))),
                 processed_doc.chunks)

C10_Witness ==
    /\ ~IsUnset(processed_doc)
    /\ Len(processed_doc.chunks) = 2
    /\ Cardinality(SentenceSpans(CollapseWhitespace(Strip(document)))) = 3

\* The chunks are the sentences cut into consecutive groups, and a chunk
\* of more than TargetWords words is a group of one sentence.
RECURSIVE WithinTarget(_, _)
WithinTarget(sentences, chunks) ==
    IF chunks = <<>>
    THEN sentences = <<>>
    ELSE \E k \in 1..Len(sentences) :
            /\ chunks[1] = Join(SubSeq(sentences, 1, k), <<" ">>)
            /\ (k = 1 \/ WordCount(chunks[1]) <= TargetWords)
            /\ WithinTarget(SubSeq(sentences, k + 1, Len(sentences)), Tail(chunks))

\* C11: every chunk of preprocess_document has at most 200 words, unless
\* it is one single sentence of more than 200 words; a sentence of more
\* than 200 words shares its chunk with no other sentence.
C11_ChunksWithinTarget ==
    ~IsUnset(processed_doc) =>
        WithinTarget(SentencesOf(CollapseWhitespace(Strip(document))),
                     processed_doc.chunks)

C11_Witness ==
    /\ ~IsUnset(processed_doc)
    /\ Len(processed_doc.chunks) = 3
    /\ WordCount(processed_doc.chunks[2]) > TargetWords

\* The text holds no symbol but whitespace.
IsBlank(text) == \A i \in 1..Len(text) : IsSpace(text[i])

\* C12: for an empty or whitespace-only document preprocess_document
\* returns a result (it does not fail): no chunks, chunk_count 0,
\* total_length 0, and metadata that carries the error marker.
C12_BlankDocumentYieldsErrorMarker ==
    ~IsUnset(processed_doc) /\ IsBlank(document) =>
        /\ processed_doc.chunks = <<>>
        /\ processed_doc.chunk_count = 0
        /\ processed_doc.total_length = 0
        /\ DOMAIN processed_doc.metadata = {"error"}

C12_Witness ==
    /\ ~IsUnset(processed_doc)
    /\ IsBlank(document)
    /\ Len(document) = 3
    /\ "error" \in DOMAIN processed_doc.metadata

\* A fraction that was computed without dividing by zero and lies in [0,1].
IsRatio(x) == x.den > 0 /\ 0 <= x.num /\ x.num <= x.den

\* The scores extract_context returned.
ContextScores ==
    {report.context_result.relevant_chunks[i].score :
        i \in 1..Len(report.context_result.relevant_chunks)}
    \cup {report.context_result.relevance_score}

\* C13: every chunk score of extract_context and each of the three ratios
\* of calculate_relevance lies in [0,1], and is 0, computed without a
\* division, when the word set in its denominator is empty.
C13_RatiosWithinUnitInterval ==
    /\ ~IsUnset(report.context_result) =>
          /\ \A x \in ContextScores : IsRatio(x)
          /\ (FindWords(query.question) = {} =>
                 \A x \in ContextScores : x.num = 0)
    /\ ~IsUnset(report.relevance) =>
          /\ ~report.relevance.error
          /\ IsRatio(report.relevance.qa_score)
          /\ IsRatio(report.relevance.ac_score)
          /\ IsRatio(report.relevance.qc_score)
          /\ (FindWords(query.question) \ StopWords = {} =>
                 report.relevance.qa_score.num = 0
                 /\ report.relevance.qc_score.num = 0)
          /\ (FindWords(query.answer) \ StopWords = {} =>
                 report.relevance.ac_score.num = 0)

C13_Witness ==
    /\ ~IsUnset(report.relevance)
    /\ FindWords(query.question) = {}
    /\ Len(report.context_result.relevant_chunks) >= 2
    /\ report.relevance.qa_score.num = 0
    /\ report.relevance.ac_score.num > 0

\* 100 * (0.4 * qa + 0.4 * ac + 0.2 * qc) of the ratios reported, in
\* tenths of a percent, as the fraction num / den.
ExactTenths ==
    LET qa == report.relevance.qa_score
        ac == report.relevance.ac_score
        qc == report.relevance.qc_score
    IN  [num |-> 400 * qa.num * ac.den * qc.den + 400 * ac.num * qa.den * qc.den
                 + 200 * qc.num * qa.den * ac.den,
         den |-> qa.den * ac.den * qc.den]

\* C14 as stated: calculate_relevance reports exactly the percentage
\* 100 * (0.4 * qa + 0.4 * ac + 0.2 * qc), and the category High if and only
\* if that percentage is at least 70, Medium if and only if it is at least
\* 50 and below 70, Low otherwise.
C14_ExactPercentageAndCategory ==
    ~IsUnset(report.relevance) =>
        /\ report.relevance.relevance_tenths * ExactTenths.den = ExactTenths.num
        /\ report.relevance.category =
              IF ExactTenths.num >= 700 * ExactTenths.den THEN "High"
              ELSE IF ExactTenths.num >= 500 * ExactTenths.den THEN "Medium"
              ELSE "Low"

\* C14, amended: calculate_relevance reports the percentage
\* 100 * (0.4 * qa + 0.4 * ac + 0.2 * qc) rounded to one decimal place, and
\* exactly one category for the rounded percentage: High if and only if it
\* is at least 70, Medium if and only if it is at least 50 and below 70,
\* Low otherwise.
C14_RoundedPercentageAndCategory ==
    ~IsUnset(report.relevance) =>
        LET tenths == report.relevance.relevance_tenths
            distance == tenths * ExactTenths.den - ExactTenths.num
        IN  /\ 2 * distance <= ExactTenths.den
            /\ -2 * distance <= ExactTenths.den
            /\ report.relevance.category \in {"High", "Medium", "Low"}
            /\ report.relevance.category = "High" <=> tenths >= 700
            /\ report.relevance.category = "Medium" <=> (tenths >= 500 /\ tenths < 700)
            /\ report.relevance.category = "Low" <=> tenths < 500

C14_Witness ==
    /\ ~IsUnset(report.relevance)
    /\ report.relevance.relevance_tenths * ExactTenths.den # ExactTenths.num
    /\ report.relevance.category = "Medium"

\* C15: for a processed document with zero chunks extract_context returns
\* the fixed no-content message as context, an empty relevant-chunk list
\* and relevance 0, and computes no chunk score.
C15_NoChunksNoScoring ==
    ~IsUnset(report.context_result) /\ processed_doc.chunks = <<>> =>
        /\ report.context_result.context =
              <<"No", " ", "document", " ", "content", " ", "available", " ",
                "for", " ", "analysis", ".">>
        /\ report.context_result.relevant_chunks = <<>>
        /\ report.context_result.relevance_score.num = 0
        /\ report.scores_computed = 0

C15_Witness ==
    /\ ~IsUnset(report.context_result)
    /\ document = <<".">>
    /\ processed_doc.chunks = <<>>
    /\ query.question = <<"b", "?">>

\* No chunk of the processed document shares a word with the question.
NoChunkScores ==
    \A i \in 1..Len(processed_doc.chunks) :
        FindWords(query.question) \cap FindWords(processed_doc.chunks[i]) = {}

\* C16: for a processed document with at least one chunk the context of
\* extract_context is not empty, and when no chunk has a positive score it
\* is the first two chunks in document order joined by a blank line (the
\* single chunk if there is one only).
C16_ContextNeverEmpty ==
    ~IsUnset(report.context_result) /\ processed_doc.chunks # <<>> =>
        /\ report.context_result.context # <<>>
        /\ (NoChunkScores =>
               report.context_result.context =
                   IF Len(processed_doc.chunks) = 1
                   THEN processed_doc.chunks[1]
                   ELSE processed_doc.chunks[1] \o <<"\n", "\n">>
                        \o processed_doc.chunks[2])

C16_Witness ==
    /\ ~IsUnset(report.context_result)
    /\ Len(processed_doc.chunks) = 3
    /\ query.question # <<>>
    /\ NoChunkScores

OccursIn(text, context) ==
    \E from \in 1..(Len(context) + 1) :
        \E to \in (from - 1)..Len(context) :
            SubSeq(context, from, to) = text

\* C18: the source report of extract_sources lists chunk number i, counted
\* from 1 and in increasing order, exactly when the trimmed text of chunk i
\* occurs literally in the supplied context: no unused chunk is listed and
\* no used chunk is missing.
C18_UsedChunksAreTheQuotedOnes ==
    (~IsUnset(report.sources) /\ ~report.sources.error /\ report.sources.available) =>
        LET used_chunks == report.sources.used_chunks
            chunks == processed_doc.chunks
        IN  /\ \A k \in 1..Len(used_chunks) : used_chunks[k] \in 1..Len(chunks)
            /\ \A k \in 1..(Len(used_chunks) - 1) : used_chunks[k] < used_chunks[k + 1]
            /\ \A i \in 1..Len(chunks) :
                   (\E k \in 1..Len(used_chunks) : used_chunks[k] = i)
                       <=> OccursIn(Strip(chunks[i]), report.context_result.context)

C18_Witness ==
    /\ ~IsUnset(report.sources)
    /\ Len(processed_doc.chunks) = 3
    /\ report.sources.used_chunks = <<1, 3>>
    /\ Len(report.context_result.relevant_chunks) = 3
    /\ report.context_result.relevant_chunks[1].index = 2

\* The pipeline steps that call extract_context, prepare_prompt and
\* extract_sources.
ComponentSteps == {"extract_context", "prepare_prompt", "extract_sources"}

\* The chunk list of the processed document a pipeline holds.
ChunksHeld(f) ==
    IF IsUnset(f.preprocess_result) THEN <<>> ELSE f.preprocess_result.chunks

\* C19: no pipeline component changes its caller's data.  Over a step in
\* which extract_context, prepare_prompt or extract_sources runs, the
\* chat-history list handed in keeps its turns in their order, and the
\* chunk list of the processed document stays as it was.
C19_ComponentsLeaveCallerData ==
    [][\A s \in Sessions :
          (pc[s] \in ComponentSteps /\ pc'[s] # pc[s]) =>
              /\ request'[s].inputs.chat_history = request[s].inputs.chat_history
              /\ ChunksHeld(frame'[s]) = ChunksHeld(frame[s])]_vars

C19_Witness ==
    \E s \in Sessions :
        /\ ~IsUnset(frame[s].sources_result)
        /\ ~IsUnset(frame[s].extract_context_result)
        /\ Len(request[s].inputs.chat_history) = 6
        /\ Len(frame[s].preprocess_result.chunks) = 2
        /\ frame[s].extract_context_result.relevant_chunks[1].index = 1

\* C20: across any sequence of get_promptflow_executor and execute_flow
\* calls at most one executor and at most one client handle are
\* constructed, get_promptflow_executor never hands out two different
\* executors, and once the executor exists neither it nor its client handle
\* is assigned again.
C20_OneExecutorOneClient ==
    /\ [](/\ executor.executors <= 1
          /\ executor.clients <= 1
          /\ Cardinality(executor.returned) <= 1
          /\ executor.returned \subseteq {executor.instance})
    /\ [][executor.instance # 0 =>
              /\ executor'.instance = executor.instance
              /\ executor'.client = executor.client]_vars

C20_Witness ==
    /\ executor.calls = MaxCalls
    /\ executor.executors = 1
    /\ executor.clients = 1
    /\ executor.returned = {1}
    /\ outcome[Caller].kind = "returned"
    /\ CompletionCalls(Caller) >= 1

\* The entries a stored history may hold.
Window == IF session.app = "app" THEN AppWindow ELSE DynamicWindow

\* C21: the history stored in a session is a bounded sliding window.  It
\* holds at most N entries (20 in app_dynamic.py, 10 in app.py), they are
\* the most recent entries in their order of arrival, and each stored user
\* turn is immediately followed by the assistant reply to it.
C21_HistoryIsSlidingWindow ==
    /\ Len(session.stored) <= Window
    /\ session.stored = Last(session.appended, Len(session.stored))
    /\ \A i \in 1..Len(session.stored) :
           session.stored[i].role = "user" =>
               /\ i < Len(session.stored)
               /\ session.stored[i + 1] = AssistantTurn(session.stored[i].turn)

\* Session s serves an execute_flow call whose flow is configured and
\* enabled.
IsEnabledFlow(s) ==
    /\ request[s].via = "executor"
    /\ request[s].flow_name \in DOMAIN flows
    /\ flows[request[s].flow_name] = "enabled"

\* C22: execute_flow runs exactly the pipeline its flow name selects.  An
\* enabled chat_assistant runs prepare_prompt, one completion call and
\* format_response, in that order, and nothing else; an enabled document_qa
\* runs only the document-QA steps; any other enabled name returns the
\* generic stub result with no step run and no completion call.
C22_FlowNameSelectsPipeline ==
    \A s \in Sessions :
        IsEnabledFlow(s) =>
            IF request[s].flow_name = "chat_assistant"
            THEN /\ IsPrefix(log[s], ChatAssistantLog)
                 /\ CompletionCalls(s) <= 1
                 /\ (outcome[s].kind = "returned" =>
                         log[s] = ChatAssistantLog /\ CompletionCalls(s) = 1)
            ELSE IF request[s].flow_name = "document_qa"
            THEN /\ IsPrefix(log[s], DocumentQaLog)
                 /\ \A i \in 1..Len(log[s]) :
                        log[s][i] \notin {"prepare_prompt", "llm_response",
                                          "format_response"}
            ELSE /\ pc[s] = "done"
                 /\ log[s] = <<>>
                 /\ s \notin waiting
                 /\ outcome[s].kind = "returned"
                 /\ outcome[s].result =
                        [message |-> "Generic flow execution not yet implemented"]

C22_Witness ==
    \E s \in Sessions :
        /\ IsEnabledFlow(s)
        /\ request[s].flow_name = "chat_assistant"
        /\ outcome[s].kind = "returned"
        /\ log[s] = ChatAssistantLog
        /\ flows["custom_flow"] = "enabled"

\* C23: the prompt that the document-QA pipeline sends to the completion
\* service embeds the context extracted by extract_context, the
\* conversation history as extract_context rendered it, and the question.
C23_PromptEmbedsContextHistoryQuestion ==
    \A s \in Sessions :
        (IsDocumentQa(s) /\ CompletionCalls(s) >= 1) =>
            /\ Contains(frame[s].prompt, frame[s].extract_context_result.context)
            /\ Contains(frame[s].prompt,
                        frame[s].extract_context_result.formatted_history)
            /\ Contains(frame[s].prompt,
                        Format(Get(request[s].inputs, "question", <<>>)))

\* The score of chunk number i (counted from 0) against the question.
ScoreOfChunk(i) == ChunkScore(FindWords(query.question), processed_doc.chunks[i + 1])

\* Chunk i stands before chunk j in the ranking: its score is greater, or
\* the scores are equal and it comes first in the document.
RankedBefore(i, j) ==
    \/ ScoreGreater(ScoreOfChunk(i), ScoreOfChunk(j))
    \/ ScoreEqual(ScoreOfChunk(i), ScoreOfChunk(j)) /\ i < j

\* The numbers of the chunks extract_context reported, in reported order.
Reported ==
    [k \in 1..Len(report.context_result.relevant_chunks) |->
        report.context_result.relevant_chunks[k].index]

\* C24: extract_context ranks all chunks by score in descending order,
\* chunks of equal score in document order, and reports exactly the first
\* min(3, chunk count) entries of that ranking, each with its score.
C24_ReportsTopOfRanking ==
    ~IsUnset(report.context_result) /\ processed_doc.chunks # <<>> =>
        LET n == Len(processed_doc.chunks)
            relevant_chunks == report.context_result.relevant_chunks
        IN  /\ Len(relevant_chunks) = IF n < 3 THEN n ELSE 3
            /\ \A k \in 1..Len(relevant_chunks) :
                   /\ Reported[k] \in 0..(n - 1)
                   /\ relevant_chunks[k].score = ScoreOfChunk(Reported[k])
            /\ \A k \in 1..(Len(relevant_chunks) - 1) :
                   RankedBefore(Reported[k], Reported[k + 1])
            /\ \A i \in 0..(n - 1) :
                   (\A k \in 1..Len(relevant_chunks) : Reported[k] # i) =>
                       \A k \in 1..Len(relevant_chunks) : RankedBefore(Reported[k], i)

C24_Witness ==
    /\ ~IsUnset(report.context_result)
    /\ Len(processed_doc.chunks) = 4
    /\ Reported = <<1, 3, 0>>
    /\ ScoreEqual(ScoreOfChunk(1), ScoreOfChunk(3))
    /\ ScoreEqual(ScoreOfChunk(0), ScoreOfChunk(2))

\* The texts of the reported chunks, in reported order.
ReportedTexts == [k \in 1..Len(Reported) |-> processed_doc.chunks[Reported[k] + 1]]

\* The reported chunks with a score above zero, in reported order.
PositiveReported ==
    SelectSeq(Reported, LAMBDA i : ScorePositive(ScoreOfChunk(i)))

\* C25 as stated: unless all of the top 3 ranked chunks score zero, the
\* context is exactly the texts of the top 3 ranked chunks (all chunks if
\* fewer than 3), in ranked order, joined by a blank line.
C25_ContextIsTopThree ==
    (/\ ~IsUnset(report.context_result)
     /\ processed_doc.chunks # <<>>
     /\ PositiveReported # <<>>) =>
        report.context_result.context = Join(ReportedTexts, <<"\n", "\n">>)

\* C25, amended: the context is exactly the texts of those of the top 3
\* ranked chunks that score above zero, in ranked order, joined by a blank
\* line; a top chunk that scores zero is left out, and the document's
\* first two chunks are used instead only when every one of the top 3
\* scores zero.
C25_ContextIsPositiveTopThree ==
    (~IsUnset(report.context_result) /\ processed_doc.chunks # <<>>) =>
        IF PositiveReported # <<>>
        THEN report.context_result.context =
                 Join([k \in 1..Len(PositiveReported) |->
                          processed_doc.chunks[PositiveReported[k] + 1]],
                      <<"\n", "\n">>)
        ELSE report.context_result.context =
                 Join(Take(processed_doc.chunks, 2), <<"\n", "\n">>)

C25_Witness ==
    /\ ~IsUnset(report.context_result)
    /\ Len(processed_doc.chunks) = 3
    /\ Len(PositiveReported) = 2
    /\ PositiveReported[1] > PositiveReported[2]
    /\ report.context_result.context # Join(ReportedTexts, <<"\n", "\n">>)

\* The line of one turn: its role with a capital initial, a colon, its
\* content.
TurnLine(turn) ==
    <<IF turn.role = "user" THEN "User" ELSE "Assistant", ":", " ">>
    \o turn.content \o <<"\n">>

\* A header, then the lines of the last min(3, n) turns in their order.
HeaderAndLastThree(chat_history) ==
    LET n == Len(chat_history)
        m == IF n < 3 THEN n ELSE 3
    IN  <<"\n", "\n", "Previous conversation context:", "\n">>
        \o Join([k \in 1..m |-> TurnLine(chat_history[n - m + k])], <<>>)

\* C26 as stated: the history rendered by extract_context is empty when the
\* chat history is empty, and otherwise is a header followed by one
\* 'Role: content' line for each of the last min(3, n) turns, in their
\* order, with no earlier turn.
C26_HistoryRendersLastThree ==
    ~IsUnset(report.context_result) =>
        report.context_result.formatted_history =
            IF query.chat_history = <<>> THEN <<>>
            ELSE HeaderAndLastThree(query.chat_history)

\* C26, amended: for a processed document with at least one chunk the
\* rendered history is empty when the chat history is empty and otherwise
\* the header followed by the lines of the last min(3, n) turns; for a
\* processed document without chunks it is empty whatever the history.
C26_HistoryRendersLastThreeOfChunkedDocument ==
    ~IsUnset(report.context_result) =>
        report.context_result.formatted_history =
            IF query.chat_history = <<>> \/ processed_doc.chunks = <<>> THEN <<>>
            ELSE HeaderAndLastThree(query.chat_history)

C26_Witness ==
    /\ ~IsUnset(report.context_result)
    /\ processed_doc.chunks # <<>>
    /\ Len(query.chat_history) = 6
    /\ report.context_result.formatted_history =
           <<"\n", "\n", "Previous conversation context:", "\n",
             "Assistant", ":", " ", "e", "\n",
             "User", ":", " ", "f", "\n",
             "Assistant", ":", " ", "g", "\n">>

\* The answer's sentences: the stripped pieces between its runs of
\* terminators.
AnswerSentences ==
    LET pieces == ReSplit(query.answer, <<>>)
    IN  [i \in 1..Len(pieces) |-> Strip(pieces[i])]

\* Some five consecutive words of the sentence, lower-cased and a space
\* apart, occur in the lower-cased context.
HasQuotedWindow(sentence) ==
    LET words == SplitWords(Lower(sentence), <<>>)
    IN  \E i \in 1..(Len(words) - 4) :
            OccursIn(Join(SubSeq(words, i, i + 4), <<" ">>),
                     Lower(report.context_result.context))

\* C27 as stated: extract_sources counts an answer sentence as a potential
\* reference if and only if it has at least 20 words and some window of 5
\* consecutive words of it appears verbatim, ignoring case, in the context,
\* each such sentence once.
C27_QuotesAreTwentyWordSentences ==
    (~IsUnset(report.sources) /\ report.sources.available) =>
        LET AtLeastTwentyWords(sentence) ==
                WordCount(sentence) >= 20 /\ HasQuotedWindow(sentence)
        IN  Len(report.sources.potential_quotes)
                = Cardinality({i \in 1..Len(AnswerSentences) :
                                  AtLeastTwentyWords(AnswerSentences[i])})

\* C27, amended: extract_sources counts an answer sentence as a potential
\* reference if and only if the stripped sentence is longer than 20
\* characters, has at least 5 words, and some window of 5 consecutive
\* words of it, lower-cased and joined by single spaces, is a substring of
\* the lower-cased context; each such sentence is counted once.
C27_QuotesAreLongSentences ==
    (~IsUnset(report.sources) /\ report.sources.available) =>
        LET LongWithWindow(sentence) ==
                /\ TextLen(sentence) > 20
                /\ WordCount(sentence) >= 5
                /\ HasQuotedWindow(sentence)
        IN  /\ Len(report.sources.potential_quotes)
                   = Cardinality({i \in 1..Len(AnswerSentences) :
                                     LongWithWindow(AnswerSentences[i])})
            /\ \A k \in 1..Len(report.sources.potential_quotes) :
                   LongWithWindow(report.sources.potential_quotes[k])

C27_Witness ==
    /\ ~IsUnset(report.sources)
    /\ report.sources.available
    /\ Len(AnswerSentences) = 3
    /\ Len(report.sources.potential_quotes) = 2
    /\ WordCount(report.sources.potential_quotes[1]) = 11
    /\ WordCount(report.sources.potential_quotes[2]) = 20

\* The sentences preprocess_document packs for the document.
DocumentSentences == Sentences(CleanedContent(document))

\* The number of sentences in the first k chunks: the chunks are joined
\* from consecutive sentences, none of them empty.
SentencesThrough(k) ==
    CHOOSE j \in 0..Len(DocumentSentences) :
        Join(SubSeq(DocumentSentences, 1, j), <<" ">>)
            = Join(SubSeq(processed_doc.chunks, 1, k), <<" ">>)

\* C28: the packing is greedy: for every two consecutive chunks the words
\* of the earlier chunk and the words of the first sentence of the later
\* chunk are more than TargetWords together.
C28_PackingIsGreedy ==
    (~IsUnset(processed_doc) /\ Len(processed_doc.chunks) >= 2)
        => \A k \in 1..(Len(processed_doc.chunks) - 1) :
               WordCount(processed_doc.chunks[k])
               + WordCount(DocumentSentences[SentencesThrough(k) + 1]) > TargetWords

\* A chunk of two sentences that holds exactly TargetWords words is
\* closed by a third sentence of one word.
C28_Witness ==
    /\ ~IsUnset(processed_doc)
    /\ Len(processed_doc.chunks) = 2
    /\ SentencesThrough(1) = 2
    /\ WordCount(processed_doc.chunks[1]) = TargetWords
    /\ WordCount(DocumentSentences[3]) = 1

\* The numbers, counted from 1, of the chunks whose texts extract_context
\* joined into the context: the reported chunks that score above zero,
\* or the document's first two chunks when none of them does.
PutIntoContext(f) ==
    LET relevant_chunks == f.extract_context_result.relevant_chunks
        positive == {relevant_chunks[k].index + 1 :
                        k \in {k \in 1..Len(relevant_chunks) :
                                  relevant_chunks[k].score.num > 0}}
        first_two == {i \in 1..Len(ChunksHeld(f)) : i <= 2}
    IN  IF positive = {} THEN first_two ELSE positive

\* The pipeline has run extract_sources on a document with chunks.
SourcesReported(s) ==
    /\ ~IsUnset(frame[s].sources_result)
    /\ ~IsUnset(frame[s].extract_context_result)
    /\ ChunksHeld(frame[s]) # <<>>

\* C29: across the pipeline, every chunk whose text extract_context put
\* into the context is listed as used by extract_sources run on the same
\* processed document and that context, so for a document with at least
\* one chunk the list of used chunks is never empty.
C29_ContextChunksAreListedAsUsed ==
    \A s \in Sessions :
        SourcesReported(s) =>
            LET used_chunks == frame[s].sources_result.used_chunks
            IN  /\ \A i \in PutIntoContext(frame[s]) :
                       \E k \in 1..Len(used_chunks) : used_chunks[k] = i
                /\ used_chunks # <<>>

\* preprocess_document took the chunking path: the metadata holds the
\* processing status, not the error marker.
ProcessedWithSuccess ==
    /\ ~IsUnset(processed_doc)
    /\ "processing_status" \in DOMAIN processed_doc.metadata
    /\ processed_doc.metadata.processing_status = "success"

\* C30 as stated: preprocess_document returns an empty chunk list only
\* together with the metadata error marker: every result with the status
\* "success" has at least one chunk, chunk_count equal to the number of
\* chunks, and no empty chunk.
C30_SuccessHasChunks ==
    ProcessedWithSuccess =>
        /\ Len(processed_doc.chunks) >= 1
        /\ processed_doc.chunk_count = Len(processed_doc.chunks)
        /\ \A i \in 1..Len(processed_doc.chunks) :
               Strip(processed_doc.chunks[i]) # <<>>

\* C30, amended: every result with the status "success" has chunk_count
\* equal to the number of chunks and no empty chunk, and it has at least
\* one chunk exactly when the document holds a sentence; a document that
\* is not blank but holds terminators and whitespace only gives an empty
\* chunk list with the status "success".  The error marker comes with an
\* empty chunk list and with a blank document only.
C30_SuccessHasChunksOfSentences ==
    /\ ProcessedWithSuccess =>
           /\ Strip(document) # <<>>
           /\ processed_doc.chunk_count = Len(processed_doc.chunks)
           /\ \A i \in 1..Len(processed_doc.chunks) :
                  Strip(processed_doc.chunks[i]) # <<>>
           /\ Len(processed_doc.chunks) >= 1 <=> DocumentSentences # <<>>
           /\ DocumentSentences = <<>> <=>
                  \A i \in 1..Len(document) :
                      IsSpace(document[i]) \/ IsTerminator(document[i])
    /\ (~IsUnset(processed_doc) /\ ~ProcessedWithSuccess) =>
           /\ Strip(document) = <<>>
           /\ processed_doc.chunks = <<>>
           /\ "error" \in DOMAIN processed_doc.metadata

\* A document of terminators between whitespace is processed with
\* success into no chunk at all.
C30_Witness ==
    /\ ProcessedWithSuccess
    /\ processed_doc.chunks = <<>>
    /\ processed_doc.metadata.sentence_count = 0
    /\ Len(document) >= 3
    /\ \E i \in 1..Len(document) : IsSpace(document[i])

====
